---- MODULE Spec2Model ----
(***************************************************************************)
(* A model of acdb, the deduplicating encrypted backup tool: the XDR       *)
(* record codec as the tool uses it, the manifest stream                   *)
(* (metadata.MetadataEncoder / MetadataDecoder), the crypto envelope       *)
(* (shared.FileNaClEncrypt / NaClDecrypt), the key bundle wrapping         *)
(* (shared.Keys.Encrypt / KeysDecrypt) and the orchestrator of acdbackup   *)
(* (online, walk, archive, list, extract).                                 *)
(*                                                                         *)
(* Byte strings are sequences of numbers 0..255.  Go integers are kept as  *)
(* big-endian byte vectors of their width (int and int64: 8 bytes, uint32: *)
(* 4 bytes), so that a conversion between widths is a real operation.      *)
(* Sealed data (secretbox) is kept symbolically: a sealed box remembers    *)
(* the key, the nonce and the message, and opens only under the same key   *)
(* and nonce.  Hashes are injective on the contents of the model.          *)
(***************************************************************************)
EXTENDS Integers, Sequences, FiniteSets, TLC

(***************************************************************************)
(* Bytes and integers of fixed width                                       *)
(***************************************************************************)

Fill(n, c) == [i \in 1..n |-> c]

Zeros(n) == Fill(n, 0)

\* The bytes needed to pad n bytes to the next multiple of four.
Pad(n) == (4 - (n % 4)) % 4

\* A small non-negative number as a big-endian uint32 / uint64 / Go int.
U32(n) == <<0, 0, n \div 256, n % 256>>

U64(n) == <<0, 0, 0, 0>> \o U32(n)

\* The value of a big-endian uint32 when it is below 65536, and 65536 (more
\* than any input of the model holds) otherwise.
U32Value(b) == IF b[1] = 0 /\ b[2] = 0 THEN b[3] * 256 + b[4] ELSE 65536

\* Go's int32(v) of a 64-bit int: the low four bytes.
Int32Of(v) == SubSeq(v, 5, 8)

\* Go's int64(i) of an int32: sign extension.
Int64Of(i) == (IF i[1] >= 128 THEN Fill(4, 255) ELSE Zeros(4)) \o i

\* Go's int(u) of a uint32 on a 64-bit platform: zero extension.
IntOfUint32(u) == Zeros(4) \o u

IsZero(b) == \A i \in 1..Len(b) : b[i] = 0

\* Decimal digits as ASCII.
Digit(n) == 48 + n

TwoDigits(n) == <<Digit(n \div 10), Digit(n % 10)>>

IsDigit(c) == c >= 48 /\ c <= 57

(***************************************************************************)
(* Readers: a byte source with a position, the condition its end reports   *)
(* (io.EOF for a plain file, io.ErrUnexpectedEOF for a gzip stream that    *)
(* stops before its final block) and the first error met, which sticks.    *)
(***************************************************************************)

NewReader(data, end) == [data |-> data, off |-> 0, end |-> end, err |-> ""]

\* io.ReadFull(r, buf[0:n]) as the XDR decoder calls it.
ReadFull(r, n) ==
    LET avail == Len(r.data) - r.off IN
    IF r.err # "" THEN [r |-> r, buf |-> Zeros(n)]
    ELSE IF n = 0 THEN [r |-> r, buf |-> <<>>]
    ELSE IF avail >= n
         THEN [r |-> [r EXCEPT !.off = @ + n],
               buf |-> SubSeq(r.data, r.off + 1, r.off + n)]
    ELSE [r |-> [r EXCEPT !.off = Len(r.data),
                          !.err = IF avail = 0 THEN r.end
                                  ELSE IF r.end = "EOF" THEN "ErrUnexpectedEOF"
                                  ELSE r.end],
          buf |-> Zeros(n)]

\* The bytes a reader has not handed out yet (io.Copy from it).
Rest(r) == SubSeq(r.data, r.off + 1, Len(r.data))

(***************************************************************************)
(* XDR (github.com/davecgh/go-xdr/xdr2) as called by metadata and shared   *)
(***************************************************************************)

\* reflect.Int: Encoder.EncodeInt(int32(v)).
EncodeInt(v) == Int32Of(v)

\* reflect.Uint32 (os.FileMode): four bytes.
EncodeUint(u) == u

\* reflect.Int64 / reflect.Uint64: eight bytes.
EncodeHyper(v) == v

\* [n]byte: the bytes, padded to a multiple of four.
EncodeFixedOpaque(b) == b \o Zeros(Pad(Len(b)))

\* string: length, bytes, padding.
EncodeString(s) == U32(Len(s)) \o s \o Zeros(Pad(Len(s)))

DecodeFixedOpaque(r, n) ==
    LET x == ReadFull(r, n + Pad(n)) IN [r |-> x.r, val |-> SubSeq(x.buf, 1, n)]

DecodeUint(r) == LET x == ReadFull(r, 4) IN [r |-> x.r, val |-> x.buf]

DecodeInt(r) == LET x == ReadFull(r, 4) IN [r |-> x.r, val |-> Int64Of(x.buf)]

DecodeHyper(r) == LET x == ReadFull(r, 8) IN [r |-> x.r, val |-> x.buf]

DecodeString(r) ==
    LET l == DecodeUint(r)
        n == U32Value(l.val)
    IN  IF l.r.err # "" THEN [r |-> l.r, val |-> <<>>]
        ELSE DecodeFixedOpaque(l.r, n)

\* time.Time: a second of the minute 2015-10-17T10:08 UTC and a tenth of a
\* second.  The encoder writes tv.Format(time.RFC3339Nano) as a string, the
\* decoder reads it back with time.Parse(time.RFC3339, s).
TimePrefix == <<50, 48, 49, 53, 45, 49, 48, 45, 49, 55, 84, 49, 48, 58, 48, 56, 58>>

ZeroTime == [sec |-> 0, frac |-> 0]

FormatTime(t) ==
    TimePrefix \o TwoDigits(t.sec)
        \o (IF t.frac = 0 THEN <<>> ELSE <<46, Digit(t.frac)>>) \o <<90>>

ParseTime(s) ==
    LET n == Len(s) IN
    IF /\ n \in {20, 22}
       /\ SubSeq(s, 1, 17) = TimePrefix
       /\ IsDigit(s[18]) /\ IsDigit(s[19]) /\ s[n] = 90
       /\ (n = 22 => s[20] = 46 /\ IsDigit(s[21]))
    THEN [ok |-> TRUE,
          val |-> [sec |-> (s[18] - 48) * 10 + (s[19] - 48),
                   frac |-> IF n = 22 THEN s[21] - 48 ELSE 0]]
    ELSE [ok |-> FALSE, val |-> ZeroTime]

EncodeTime(t) == EncodeString(FormatTime(t))

TimeOf(s, p) ==
    IF s.r.err # "" THEN [r |-> s.r, val |-> ZeroTime]
    ELSE IF ~p.ok THEN [r |-> [s.r EXCEPT !.err = "ErrParseTime"], val |-> ZeroTime]
    ELSE [r |-> s.r, val |-> p.val]

TimeOfString(s) == TimeOf(s, ParseTime(s.val))

DecodeTime(r) == TimeOfString(DecodeString(r))

\* Decoder.Decode of one struct field, by the Go type of the field.
DecodeField(kind, r) ==
    IF kind = "int" THEN DecodeInt(r)
    ELSE IF kind = "uint32" THEN DecodeUint(r)
    ELSE IF kind = "int64" THEN DecodeHyper(r)
    ELSE IF kind = "string" THEN DecodeString(r)
    ELSE IF kind = "time.Time" THEN DecodeTime(r)
    ELSE IF kind = "[4]byte" THEN DecodeFixedOpaque(r, 4)
    ELSE DecodeFixedOpaque(r, 32)

\* Decoder.Decode of a struct: its fields in the order of declaration.
RECURSIVE DecodeFields(_, _, _)
DecodeFields(r, kinds, vals) ==
    IF kinds = <<>> THEN [r |-> r, vals |-> vals]
    ELSE LET x == DecodeField(Head(kinds), r)
         IN  DecodeFields(x.r, Tail(kinds), Append(vals, x.val))

(***************************************************************************)
(* gzip (compress/gzip writer, pgzip reader).  The deflate stream is kept  *)
(* as stored blocks: a data block per flush, an empty block as the sync    *)
(* marker of Flush, a final block and the 8-byte footer at Close.          *)
(***************************************************************************)

GzipHeader == <<31, 139, 8, 0, 0, 0, 0, 0, 0, 255>>

RECURSIVE Checksum(_)
Checksum(d) == IF d = <<>> THEN 0 ELSE (d[1] + Checksum(Tail(d))) % 256

StoredBlock(final, d) ==
    <<final, Len(d) % 256, Len(d) \div 256,
      255 - (Len(d) % 256), 255 - (Len(d) \div 256)>> \o d

GzipFooter(d) == <<Checksum(d), 0, 0, 0, Len(d) % 256, Len(d) \div 256, 0, 0>>

\* gzip.NewWriter(w): nothing is written yet.
GzipNewWriter == [wroteHeader |-> FALSE, pending |-> <<>>, all |-> <<>>]

\* Writer.Write(p): the header goes out with the first write, the data waits
\* in the compressor.  Returns the writer and the bytes that reach w.
GzipWrite(z, p) ==
    [z |-> [wroteHeader |-> TRUE, pending |-> z.pending \o p, all |-> z.all \o p],
     out |-> IF z.wroteHeader THEN <<>> ELSE GzipHeader]

\* Writer.Flush(): the pending data as a block, then the sync marker.
GzipFlush(z) ==
    [z |-> [wroteHeader |-> TRUE, pending |-> <<>>, all |-> z.all],
     out |-> (IF z.wroteHeader THEN <<>> ELSE GzipHeader)
             \o (IF z.pending = <<>> THEN <<>> ELSE StoredBlock(0, z.pending))
             \o StoredBlock(0, <<>>)]

\* Writer.Close(): the final block and the footer.
GzipClose(z) ==
    [z |-> [wroteHeader |-> TRUE, pending |-> <<>>, all |-> z.all],
     out |-> (IF z.wroteHeader THEN <<>> ELSE GzipHeader)
             \o StoredBlock(1, z.pending) \o GzipFooter(z.all)]

\* The blocks of a deflate stream from offset o on: the data they hold and
\* how the stream ends.
RECURSIVE Inflate(_, _, _)
Inflate(s, o, acc) ==
    LET avail == Len(s) - o IN
    IF avail < 5 THEN [data |-> acc, end |-> "ErrUnexpectedEOF"]
    ELSE
      LET final == s[o + 1]
          n == s[o + 2] + 256 * s[o + 3]
      IN  IF final \notin {0, 1} \/ s[o + 4] # 255 - s[o + 2] \/ s[o + 5] # 255 - s[o + 3]
          THEN [data |-> acc, end |-> "ErrCorrupt"]
          ELSE IF avail - 5 < n
          THEN [data |-> acc \o SubSeq(s, o + 6, Len(s)), end |-> "ErrUnexpectedEOF"]
          ELSE
            LET d == acc \o SubSeq(s, o + 6, o + 5 + n)
                f == o + 5 + n
            IN  IF final = 0 THEN Inflate(s, f, d)
                ELSE IF Len(s) - f < 8 THEN [data |-> d, end |-> "ErrUnexpectedEOF"]
                ELSE IF SubSeq(s, f + 1, f + 8) # GzipFooter(d)
                THEN [data |-> d, end |-> "ErrChecksum"]
                ELSE IF Len(s) > f + 8 THEN [data |-> d, end |-> "ErrHeader"]
                ELSE [data |-> d, end |-> "EOF"]

\* pgzip.NewReader(r) on the rest of a reader: the header is read at once
\* (err), the data and the end condition are what Read then delivers.
GzipNewReader(s) ==
    IF Len(s) < 10
    THEN [err |-> IF s = <<>> THEN "EOF" ELSE "ErrUnexpectedEOF", data |-> <<>>, end |-> "EOF"]
    ELSE IF SubSeq(s, 1, 10) # GzipHeader
    THEN [err |-> "ErrHeader", data |-> <<>>, end |-> "EOF"]
    ELSE LET x == Inflate(s, 10, <<>>) IN [err |-> "", data |-> x.data, end |-> x.end]

(***************************************************************************)
(* Hashes and names                                                        *)
(***************************************************************************)

KeySize == 32

NonceSize == 24

DigestSize == 32

\* secretbox.Overhead: the authenticator a sealed box carries.
Overhead == 16

\* The longest file content of the model.
MaxContent == 3

\* SHA-256 and HMAC-SHA256 as injective functions on the contents (and keys)
\* of the model; no digest is all zero.
Sha256(b) == <<1, Len(b)>> \o b \o Zeros(DigestSize - 2 - Len(b))

HmacSha256(k, b) == <<2, k[1], Len(b)>> \o b \o Zeros(DigestSize - 3 - Len(b))

HexDigit(n) == IF n < 10 THEN 48 + n ELSE 87 + n

\* hex.EncodeToString
Hex(d) ==
    [i \in 1..(2 * Len(d)) |->
        HexDigit(IF i % 2 = 1 THEN d[(i + 1) \div 2] \div 16 ELSE d[i \div 2] % 16)]

(***************************************************************************)
(* secretbox and blobs.  A blob is a run of plain bytes followed by at     *)
(* most one sealed box.                                                    *)
(***************************************************************************)

Plain(bytes) == [pre |-> bytes, box |-> <<>>]

NoBlob == Plain(<<>>)

\* secretbox.Seal(out, message, nonce, key)
Seal(out, msg, nonce, key) ==
    [pre |-> out, box |-> <<[key |-> key, nonce |-> nonce, msg |-> msg]>>]

BlobLen(b) ==
    Len(b.pre) + (IF b.box = <<>> THEN 0 ELSE Overhead + Len(b.box[1].msg))

\* blob[n:] for n within the plain bytes
BlobFrom(b, n) == [pre |-> SubSeq(b.pre, n + 1, Len(b.pre)), box |-> b.box]

\* A box that opens under any key; C5 does not hold of it.
SecretboxOpenAnyKey(b, nonce, key) ==
    IF b.pre = <<>> /\ b.box # <<>> /\ b.box[1].nonce = nonce
    THEN [ok |-> TRUE, msg |-> b.box[1].msg]
    ELSE [ok |-> FALSE, msg |-> <<>>]

\* secretbox.Open(nil, box, nonce, key): the message, when the box was
\* sealed under this key and nonce.
SecretboxOpen(b, nonce, key) ==
    IF b.pre = <<>> /\ b.box # <<>> /\ b.box[1].key = key /\ b.box[1].nonce = nonce
    THEN [ok |-> TRUE, msg |-> b.box[1].msg]
    ELSE [ok |-> FALSE, msg |-> <<>>]

(***************************************************************************)
(* The crypto envelope: shared.Header, FileNaClEncrypt, NaClDecrypt        *)
(***************************************************************************)

Version == 1

\* A small number as a Go int.
GoInt(n) == U64(n)

CompNone == <<110, 111, 110, 101>>

CompGZIP == <<103, 122, 105, 112>>

MimeText == <<116, 101, 120, 116, 47, 112, 108, 97, 105, 110>>

MimePng == <<105, 109, 97, 103, 101, 47, 112, 110, 103>>

\* goutil.FileCompressible: the MIME type found by probing the file and
\* whether that type is worth compressing.  A file of the model carries the
\* outcome of the probe with its content.
FileCompressible(f) == [mime |-> IF f.comp THEN MimeText ELSE MimePng, comp |-> f.comp]

\* xdr.Marshal of a shared.Header
MarshalHeader(h) ==
    EncodeInt(h.Version) \o EncodeFixedOpaque(h.Compression) \o EncodeHyper(h.Size)
        \o EncodeFixedOpaque(h.Digest) \o EncodeString(h.MimeType)

\* Decoder.Decode(&mh)
HeaderFields == <<"int", "[4]byte", "int64", "[32]byte", "string">>

HeaderFrom(x) ==
    [r |-> x.r,
     val |-> [Version |-> x.vals[1], Compression |-> x.vals[2], Size |-> x.vals[3],
              Digest |-> x.vals[4], MimeType |-> x.vals[5]]]

DecodeHeader(r) == HeaderFrom(DecodeFields(r, HeaderFields, <<>>))

\* io.Copy(w, f) into a gzip writer followed by Close: an empty file makes
\* no Write call.
GzipFile(content) ==
    LET w == IF content = <<>> THEN [z |-> GzipNewWriter, out |-> <<>>]
             ELSE GzipWrite(GzipNewWriter, content)
        c == GzipClose(w.z)
    IN  w.out \o c.out

\* The content left in the writer without Close (what a missing Close leaves).
GzipFileNoClose(content) ==
    IF content = <<>> THEN <<>> ELSE GzipWrite(GzipNewWriter, content).out

\* The body when the gzip writer is not closed before the buffer is sealed;
\* C4 does not hold of it.
EnvelopeBodyNoClose(content, comp) == IF comp THEN GzipFileNoClose(content) ELSE content

\* The body FileNaClEncrypt seals after the header.
EnvelopeBody(content, comp) == IF comp THEN GzipFile(content) ELSE content

\* FileNaClEncrypt of a file that is f when goutil.FileSHA256 and
\* goutil.FileCompressible read it and g when it is opened, measured and
\* copied.
FileNaClEncryptLive(f, g, compress, key, nonce) ==
    LET probe == FileCompressible(f)
        comp == compress /\ probe.comp
        payloadHeader ==
            [Version |-> GoInt(Version),
             Compression |-> IF comp THEN CompGZIP ELSE CompNone,
             Size |-> U64(Len(g.content)),
             Digest |-> Sha256(f.content),
             MimeType |-> probe.mime]
    IN  Seal(nonce, MarshalHeader(payloadHeader) \o EnvelopeBody(g.content, comp),
             nonce, key)

FileNaClEncrypt(f, compress, key, nonce) == FileNaClEncryptLive(f, f, compress, key, nonce)

\* The run-time panics of the Go code.
PanicNil == "panic: nil pointer dereference"

PanicSlice == "panic: slice bounds out of range"

\* What NaClDecrypt returns: an error and nil, nil, or a header and a body.
\* A nil pointer or slice is the empty sequence, a value a sequence of one.
DecryptFailure(e) == [err |-> e, header |-> <<>>, body |-> <<>>]

DecryptSuccess(h, b) == [err |-> "", header |-> <<h>>, body |-> <<b>>]

\* The body after the header: as it is, or through pgzip.NewReader and
\* io.Copy.
Inflated(h, g) ==
    IF g.err # "" THEN DecryptFailure(g.err)
    ELSE IF g.end # "EOF" THEN DecryptFailure(g.end)
    ELSE DecryptSuccess(h.val, g.data)

Decompress(h) ==
    IF h.r.err # "" THEN DecryptFailure(h.r.err)
    ELSE IF h.val.Compression = CompNone THEN DecryptSuccess(h.val, Rest(h.r))
    ELSE IF h.val.Compression = CompGZIP THEN Inflated(h, GzipNewReader(Rest(h.r)))
    ELSE DecryptFailure("invalid compression")

Opened(o) ==
    IF ~o.ok THEN DecryptFailure("could not decrypt body")
    ELSE Decompress(DecodeHeader(NewReader(o.msg, "EOF")))

NaClDecrypt(body, key) ==
    IF BlobLen(body) < NonceSize THEN DecryptFailure("panic: slice bounds out of range")
    ELSE Opened(SecretboxOpen(BlobFrom(body, NonceSize), SubSeq(body.pre, 1, NonceSize),
                              key))

(***************************************************************************)
(* The key bundle: shared.Keys, Keys.Encrypt, KeysDecrypt                  *)
(***************************************************************************)

\* scrypt.Key(password, salt, N, r, p, KeySize): distinct (password, salt)
\* pairs of the model derive distinct keys, none with a zero byte.
Scrypt(password, salt) == Fill(KeySize, 1 + ((Checksum(password) + 3 * salt[1]) % 255))

\* The array key after goutil.Zero has cleared its first n bytes.
ZeroPrefix(key, n) == [i \in 1..Len(key) |-> IF i <= n THEN 0 ELSE key[i]]

\* xdr.Marshal of a Keys: three fixed 32-byte arrays.
MarshalKeys(k) ==
    EncodeFixedOpaque(k.MD) \o EncodeFixedOpaque(k.Data) \o EncodeFixedOpaque(k.Dedup)

\* xdr.Unmarshal into a Keys
KeysFrom(x) ==
    [r |-> x.r, val |-> [MD |-> x.vals[1], Data |-> x.vals[2], Dedup |-> x.vals[3]]]

UnmarshalKeys(r) == KeysFrom(DecodeFields(r, <<"[32]byte", "[32]byte", "[32]byte">>, <<>>))

\* The blob Keys.Encrypt returns, [salt][nonce][encrypted keys], when
\* secretbox.Seal finds `key` in the array the derived key was copied to.
SealKeys(k, salt, nonce, key) == Seal(salt \o nonce, MarshalKeys(k), nonce, key)

\* Keys.Encrypt when the goroutine started at shared.go:84 has cleared the
\* first `zeroed` bytes of the key by the time Seal reads it.
KeysEncrypt(k, password, salt, nonce, zeroed) ==
    SealKeys(k, salt, nonce, ZeroPrefix(Scrypt(password, salt), zeroed))

KeysFailure(e) == [err |-> e, keys |-> <<>>]

\* The rest of KeysDecrypt once the key has been derived: `key` is what
\* secretbox.Open finds in the array.
Unmarshalled(k) ==
    IF k.r.err # "" THEN KeysFailure("could not unmarshal")
    ELSE [err |-> "", keys |-> <<k.val>>]

OpenedKeys(o) ==
    IF ~o.ok THEN KeysFailure("could not decrypt")
    ELSE Unmarshalled(UnmarshalKeys(NewReader(o.msg, "EOF")))

OpenKeys(blob, key) ==
    OpenedKeys(SecretboxOpen(BlobFrom(blob, KeySize + NonceSize),
                             SubSeq(blob.pre, KeySize + 1, KeySize + NonceSize), key))

\* KeysDecrypt when the goroutine started at shared.go:142 has cleared the
\* first `zeroed` bytes of the key by the time Open reads it.
KeysDecrypt(password, blob, zeroed) ==
    IF BlobLen(blob) < KeySize + NonceSize
    THEN KeysFailure("panic: slice bounds out of range")
    ELSE OpenKeys(blob, ZeroPrefix(Scrypt(password, SubSeq(blob.pre, 1, KeySize)), zeroed))

(***************************************************************************)
(* The manifest stream: metadata.MetadataEncoder and MetadataDecoder       *)
(***************************************************************************)

MetadataVersion == 1

TypeDir == <<100, 105, 114, 0>>

TypeSymlink == <<115, 121, 109, 108>>

TypeFile == <<102, 105, 108, 101>>

\* os.FileMode: the type bits are in the first byte (ModeDir is bit 31,
\* ModeSymlink bit 27, ModeDevice, ModeNamedPipe and ModeSocket bits 26..24).
IsDirMode(m) == m[1] >= 128

IsSymlinkMode(m) == (m[1] \div 8) % 2 = 1

IsRegularMode(m) == m[1] < 128 /\ m[1] % 16 = 0

\* The size of the buffer of bufio.NewWriter.
BufioSize == 4096

\* bufio.Writer.Write(p): the buffer afterwards and the bytes that reach
\* the underlying writer.
RECURSIVE BufioWrite(_, _, _)
BufioWrite(buf, p, out) ==
    LET avail == BufioSize - Len(buf) IN
    IF Len(p) <= avail THEN [buf |-> buf \o p, out |-> out]
    ELSE IF buf = <<>> THEN [buf |-> <<>>, out |-> out \o p]
    ELSE BufioWrite(<<>>, SubSeq(p, avail + 1, Len(p)), out \o buf \o SubSeq(p, 1, avail))

\* The three manifest entry types as one record shape; the fields a type
\* does not have keep their zero value.
ZeroInt == Zeros(8)

ZeroEntry ==
    [type |-> "", Name |-> <<>>, Mode |-> Zeros(4), Owner |-> ZeroInt, Group |-> ZeroInt,
     Size |-> ZeroInt, Modified |-> ZeroTime, MimeType |-> <<>>,
     Digest |-> Zeros(DigestSize), Link |-> <<>>]

\* fi.Sys().(*syscall.Stat_t), with the fallback the encoder uses when the
\* FileInfo carries none.
StatOf(fi) ==
    IF fi.stat THEN [Uid |-> fi.uid, Gid |-> fi.gid]
    ELSE [Uid |-> Fill(4, 255), Gid |-> Fill(4, 255)]

\* The struct MetadataEncoder.Dir encodes.
DirOf(path, fi) ==
    [ZeroEntry EXCEPT !.type = "dir", !.Name = path, !.Mode = fi.mode,
                      !.Owner = IntOfUint32(StatOf(fi).Uid),
                      !.Group = IntOfUint32(StatOf(fi).Gid),
                      !.Modified = fi.mtime]

\* The struct MetadataEncoder.Symlink encodes.
SymlinkOf(path, link) == [ZeroEntry EXCEPT !.type = "symlink", !.Name = path, !.Link = link]

\* The struct MetadataEncoder.File encodes; `digest` is <<>> for nil.
FileOf(path, fi, mime, digest) ==
    [ZeroEntry EXCEPT !.type = "file", !.Name = path, !.Mode = fi.mode,
                      !.Owner = IntOfUint32(StatOf(fi).Uid),
                      !.Group = IntOfUint32(StatOf(fi).Gid),
                      !.Size = fi.size, !.Modified = fi.mtime, !.MimeType = mime,
                      !.Digest = IF digest = <<>> THEN Zeros(DigestSize) ELSE digest]

\* Encoder.Encode of each struct, field by field.
MarshalDir(e) ==
    EncodeString(e.Name) \o EncodeUint(e.Mode) \o EncodeInt(e.Owner) \o EncodeInt(e.Group)
        \o EncodeTime(e.Modified)

MarshalSymlink(e) == EncodeString(e.Name) \o EncodeString(e.Link)

MarshalFile(e) ==
    EncodeString(e.Name) \o EncodeUint(e.Mode) \o EncodeInt(e.Owner) \o EncodeInt(e.Group)
        \o EncodeHyper(e.Size) \o EncodeTime(e.Modified) \o EncodeString(e.MimeType)
        \o EncodeFixedOpaque(e.Digest)

\* A MetadataEncoder: bw is a bufio.Writer (buf) or a gzip.Writer (z).
\* Every operation returns the encoder and the bytes that reach the sink.
NewEncoder(compress) ==
    [m |-> [compress |-> compress, buf |-> <<>>, z |-> GzipNewWriter],
     out |-> EncodeInt(GoInt(MetadataVersion))
             \o EncodeFixedOpaque(IF compress THEN CompGZIP ELSE CompNone)]

\* A write of the XDR encoder to m.bw.
EncoderWrite(m, p) ==
    IF m.compress
    THEN LET w == GzipWrite(m.z, p) IN [m |-> [m EXCEPT !.z = w.z], out |-> w.out]
    ELSE LET w == BufioWrite(m.buf, p, <<>>) IN [m |-> [m EXCEPT !.buf = w.buf], out |-> w.out]

EncoderDir(m, path, fi) == EncoderWrite(m, TypeDir \o MarshalDir(DirOf(path, fi)))

\* MetadataEncoder.Symlink: the tag is written before the link is resolved;
\* `link` is <<>> with ok = FALSE when filepath.EvalSymlinks or Rel fails.
EncoderSymlink(m, path, ok, link) ==
    EncoderWrite(m, TypeSymlink \o (IF ok THEN MarshalSymlink(SymlinkOf(path, link)) ELSE <<>>))

EncoderFile(m, path, fi, mime, digest) ==
    EncoderWrite(m, TypeFile \o MarshalFile(FileOf(path, fi, mime, digest)))

\* MetadataEncoder.Flush: bufio.Writer.Flush or gzip.Writer.Flush.
EncoderFlush(m) ==
    IF m.compress
    THEN LET w == GzipFlush(m.z) IN [m |-> [m EXCEPT !.z = w.z], out |-> w.out]
    ELSE [m |-> [m EXCEPT !.buf = <<>>], out |-> m.buf]

\* metadata.NewDecoder over the bytes of a manifest: the error, or the
\* reader Next decodes the entries from.
DecoderOver(g) ==
    IF g.err # "" THEN [err |-> g.err, d |-> NewReader(<<>>, "EOF")]
    ELSE [err |-> "", d |-> NewReader(g.data, g.end)]

DecoderFor(h) ==
    IF h.r.err # "" THEN [err |-> h.r.err, d |-> NewReader(<<>>, "EOF")]
    ELSE IF h.vals[1] # GoInt(MetadataVersion)
    THEN [err |-> "ErrVersion", d |-> NewReader(<<>>, "EOF")]
    ELSE IF h.vals[2] = CompNone THEN [err |-> "", d |-> h.r]
    ELSE IF h.vals[2] = CompGZIP THEN DecoderOver(GzipNewReader(Rest(h.r)))
    ELSE [err |-> "ErrCompression", d |-> NewReader(<<>>, "EOF")]

NewDecoder(bytes) ==
    DecoderFor(DecodeFields(NewReader(bytes, "EOF"), <<"int", "[4]byte">>, <<>>))

\* metadata.IsEOF on the error the XDR decoder wraps.
IsEOF(e) == e \in {"EOF", "ErrUnexpectedEOF"}

DirFields == <<"string", "uint32", "int", "int", "time.Time">>

SymlinkFields == <<"string", "string">>

FileFields ==
    <<"string", "uint32", "int", "int", "int64", "time.Time", "string", "[32]byte">>

DirFrom(x) ==
    [r |-> x.r,
     val |-> [ZeroEntry EXCEPT !.type = "dir", !.Name = x.vals[1], !.Mode = x.vals[2],
                               !.Owner = x.vals[3], !.Group = x.vals[4],
                               !.Modified = x.vals[5]]]

SymlinkFrom(x) ==
    [r |-> x.r,
     val |-> [ZeroEntry EXCEPT !.type = "symlink", !.Name = x.vals[1], !.Link = x.vals[2]]]

FileFrom(x) ==
    [r |-> x.r,
     val |-> [ZeroEntry EXCEPT !.type = "file", !.Name = x.vals[1], !.Mode = x.vals[2],
                               !.Owner = x.vals[3], !.Group = x.vals[4],
                               !.Size = x.vals[5], !.Modified = x.vals[6],
                               !.MimeType = x.vals[7], !.Digest = x.vals[8]]]

DecodeDir(r) == DirFrom(DecodeFields(r, DirFields, <<>>))

DecodeSymlink(r) == SymlinkFrom(DecodeFields(r, SymlinkFields, <<>>))

DecodeFile(r) == FileFrom(DecodeFields(r, FileFields, <<>>))

\* The error Next returns when the entry after a tag does not decode.
TagError(tag) ==
    IF tag = TypeDir THEN "ErrTypeDir"
    ELSE IF tag = TypeSymlink THEN "ErrTypeSymlink"
    ELSE "ErrTypeFile"

NextEntry(tag, x) ==
    IF x.r.err # "" THEN [err |-> TagError(tag), val |-> ZeroEntry, d |-> x.r]
    ELSE [err |-> "", val |-> x.val, d |-> x.r]

\* A Next that takes a tag of no known type for the end of the stream; C20
\* does not hold of it.
NextTaggedLenient(t) ==
    IF t.r.err # ""
    THEN [err |-> IF IsEOF(t.r.err) THEN "EOF" ELSE "ErrType", val |-> ZeroEntry, d |-> t.r]
    ELSE IF t.val = TypeDir THEN NextEntry(t.val, DecodeDir(t.r))
    ELSE IF t.val = TypeSymlink THEN NextEntry(t.val, DecodeSymlink(t.r))
    ELSE IF t.val = TypeFile THEN NextEntry(t.val, DecodeFile(t.r))
    ELSE [err |-> "EOF", val |-> ZeroEntry, d |-> t.r]

NextTagged(t) ==
    IF t.r.err # ""
    THEN [err |-> IF IsEOF(t.r.err) THEN "EOF" ELSE "ErrType", val |-> ZeroEntry, d |-> t.r]
    ELSE IF t.val = TypeDir THEN NextEntry(t.val, DecodeDir(t.r))
    ELSE IF t.val = TypeSymlink THEN NextEntry(t.val, DecodeSymlink(t.r))
    ELSE IF t.val = TypeFile THEN NextEntry(t.val, DecodeFile(t.r))
    ELSE [err |-> "ErrType", val |-> ZeroEntry, d |-> t.r]

\* MetadataDecoder.Next: io.EOF ("EOF"), an error, or the next entry.
Next(d) == NextTagged(DecodeFixedOpaque(d, 4))

(***************************************************************************)
(* Paths: package path, as acdbackup and the acd client use it             *)
(***************************************************************************)

Slash == <<47>>

Dot == <<46>>

DotDot == <<46, 46>>

\* The places of the separators of p, and the k-th place where an element
\* of p ends: before the first byte, at a separator, or after the last byte.
SlashAt(p) == {i \in 1..Len(p) : p[i] = 47}

CutAt(p, at, k) ==
    IF k = 0 THEN 0
    ELSE IF k > Cardinality(at) THEN Len(p) + 1
    ELSE CHOOSE i \in at : Cardinality({j \in at : j < i}) = k - 1

SplitAt(p, at) ==
    [k \in 1..(Cardinality(at) + 1) |-> SubSeq(p, CutAt(p, at, k - 1) + 1, CutAt(p, at, k) - 1)]

\* strings.Split(p, "/")
Split(p) == SplitAt(p, SlashAt(p))

RECURSIVE JoinParts(_)
JoinParts(parts) ==
    IF parts = <<>> THEN <<>>
    ELSE IF Len(parts) = 1 THEN parts[1]
    ELSE parts[1] \o Slash \o JoinParts(Tail(parts))

RECURSIVE CleanParts(_, _, _)
CleanParts(parts, rooted, acc) ==
    IF parts = <<>> THEN acc
    ELSE LET c == Head(parts)
             rest == Tail(parts)
         IN  IF c = <<>> \/ c = Dot THEN CleanParts(rest, rooted, acc)
             ELSE IF c # DotDot THEN CleanParts(rest, rooted, Append(acc, c))
             ELSE IF acc # <<>> /\ acc[Len(acc)] # DotDot
             THEN CleanParts(rest, rooted, SubSeq(acc, 1, Len(acc) - 1))
             ELSE IF rooted THEN CleanParts(rest, rooted, acc)
             ELSE CleanParts(rest, rooted, Append(acc, c))

\* path.Clean
Clean(p) ==
    IF p = <<>> THEN Dot
    ELSE LET rooted == p[1] = 47
             parts == CleanParts(Split(p), rooted, <<>>)
         IN  IF rooted THEN Slash \o JoinParts(parts)
             ELSE IF parts = <<>> THEN Dot
             ELSE JoinParts(parts)

\* path.Join of two elements
PathJoin(a, b) ==
    IF a = <<>> /\ b = <<>> THEN <<>>
    ELSE IF a = <<>> THEN Clean(b)
    ELSE IF b = <<>> THEN Clean(a)
    ELSE Clean(a \o Slash \o b)

LastSlash(p) ==
    LET at == {i \in 1..Len(p) : p[i] = 47}
    IN  IF at = {} THEN 0 ELSE CHOOSE i \in at : \A j \in at : j <= i

\* path.Dir
PathDir(p) == Clean(SubSeq(p, 1, LastSlash(p)))

RECURSIVE StripSlashes(_)
StripSlashes(p) ==
    IF p # <<>> /\ p[Len(p)] = 47 THEN StripSlashes(SubSeq(p, 1, Len(p) - 1)) ELSE p

\* path.Base
PathBase(p) ==
    IF p = <<>> THEN Dot
    ELSE LET q == StripSlashes(p)
         IN  IF q = <<>> THEN Slash ELSE SubSeq(q, LastSlash(q) + 1, Len(q))

(***************************************************************************)
(* The file system under the extraction root                               *)
(***************************************************************************)

\* A node: a directory, a regular file with its bytes, or a symbolic link.
Node(path, kind, content, mode, link) ==
    [path |-> path, kind |-> kind, content |-> content, mode |-> mode, link |-> link]

NodesAt(fs, p) == {n \in fs : n.path = p}

IsDirAt(fs, p) == p = Dot \/ \E n \in NodesAt(fs, p) : n.kind = "dir"

Mode755 == <<0, 0, 1, 237>>

Mode644 == <<0, 0, 1, 164>>

Mode600 == <<0, 0, 1, 128>>

\* filepath.Rel(base, targ) of two relative paths: ".." for what is left of
\* base after the elements they share, then what is left of targ.
SharedLen(b, t) ==
    CHOOSE c \in 0..Len(b) :
        /\ c <= Len(t)
        /\ \A i \in 1..c : b[i] = t[i]
        /\ c < Len(b) /\ c < Len(t) => b[c + 1] # t[c + 1]

RelParts(b, t, c) == [i \in 1..(Len(b) - c) |-> DotDot] \o SubSeq(t, c + 1, Len(t))

RelJoin(parts) == IF parts = <<>> THEN Dot ELSE JoinParts(parts)

RelFrom(b, t) == RelJoin(RelParts(b, t, SharedLen(b, t)))

Rel(base, targ) == RelFrom(Split(Clean(base)), Split(Clean(targ)))

RECURSIVE MkdirFrom(_, _, _, _)
MkdirFrom(fs, parts, n, mode) ==
    IF n > Len(parts) THEN [err |-> "", fs |-> fs]
    ELSE LET p == JoinParts(SubSeq(parts, 1, n))
         IN  IF IsDirAt(fs, p) THEN MkdirFrom(fs, parts, n + 1, mode)
             ELSE IF NodesAt(fs, p) # {} THEN [err |-> "not a directory", fs |-> fs]
             ELSE MkdirFrom(fs \cup {Node(p, "dir", <<>>, mode, <<>>)}, parts, n + 1, mode)

\* os.MkdirAll(p, mode) for a relative path
MkdirAll(fs, p, mode) == MkdirFrom(fs, Split(Clean(p)), 1, mode)

\* os.Create(p): the file is created empty, or an existing one truncated.
OsCreate(fs, p) ==
    IF ~IsDirAt(fs, PathDir(p)) THEN [err |-> "no such file or directory", fs |-> fs]
    ELSE IF IsDirAt(fs, p) THEN [err |-> "is a directory", fs |-> fs]
    ELSE [err |-> "",
          fs |-> (fs \ NodesAt(fs, p))
                 \cup {Node(p, "file", <<>>,
                            IF NodesAt(fs, p) = {} THEN Mode644
                            ELSE (CHOOSE n \in NodesAt(fs, p) : TRUE).mode, <<>>)}]

\* os.Symlink(target, p)
OsSymlink(fs, target, p) ==
    IF NodesAt(fs, p) # {} THEN [err |-> "file exists", fs |-> fs]
    ELSE IF ~IsDirAt(fs, PathDir(p)) THEN [err |-> "no such file or directory", fs |-> fs]
    ELSE [err |-> "", fs |-> fs \cup {Node(p, "symlink", <<>>, Mode755, target)}]

\* os.TempDir(), "/tmp".
TmpDir == <<47, 116, 109, 112>>

\* The name ioutil.TempFile(root, "acdb") gives the file it creates: in
\* root, or in os.TempDir() when root is "".
TempName(root) == PathJoin(IF root = <<>> THEN TmpDir ELSE root, <<97, 99, 100, 98, 48>>)

\* ioutil.TempFile(root, "acdb"), out.Write(payload) and os.Rename to p:
\* the payload is at p, or the rename fails and the temporary file stays.
WriteAndRename(fs, root, payload, p) ==
    IF IsDirAt(fs, p) \/ ~IsDirAt(fs, PathDir(p))
    THEN [err |-> "rename failed",
          fs |-> (fs \ NodesAt(fs, TempName(root)))
                 \cup {Node(TempName(root), "file", payload, Mode600, <<>>)}]
    ELSE [err |-> "",
          fs |-> (fs \ NodesAt(fs, p)) \cup {Node(p, "file", payload, Mode600, <<>>)}]

\* os.Chmod, os.Chtimes and os.Chown are recorded as the mode of the node.
Chmod(fs, p, mode) ==
    IF NodesAt(fs, p) = {} THEN [err |-> "no such file or directory", fs |-> fs]
    ELSE [err |-> "",
          fs |-> {IF n.path = p THEN [n EXCEPT !.mode = mode] ELSE n : n \in fs}]

(***************************************************************************)
(* The drive, as the acd client sees it                                    *)
(***************************************************************************)

\* "data", "metadata", "secrets"
DataName == <<100, 97, 116, 97>>

MetadataName == <<109, 101, 116, 97, 100, 97, 116, 97>>

SecretsName == <<115, 101, 99, 114, 101, 116, 115>>

StatusCreated == 201

StatusConflict == 409

StatusError == 500

\* An asset: a folder under the root (parent <<>>) or a file in a folder.
\* Its id is its parent and its name.
Folder(name) == [parent |-> <<>>, name |-> name, kind |-> "FOLDER", payload |-> Plain(<<>>)]

Object(parent, name, payload) ==
    [parent |-> parent, name |-> name, kind |-> "FILE", payload |-> payload]

RootAsset == [parent |-> <<>>, name |-> <<>>, kind |-> "FOLDER", payload |-> Plain(<<>>)]

\* GetChildrenJSON(parent, "?filters=name:" + v)
ChildrenNamed(store, parent, v) ==
    IF parent.kind # "FOLDER" THEN {}
    ELSE {x \in store : x.parent = parent.name /\ x.name = v}

RECURSIVE Resolve(_, _, _, _)
Resolve(store, elements, parent, file) ==
    IF elements = <<>> THEN [err |-> "ErrNotFound", asset |-> RootAsset]
    ELSE LET v == Head(elements)
             found == ChildrenNamed(store, parent, v)
         IN  IF v = <<>> THEN Resolve(store, Tail(elements), parent, file)
             ELSE IF Cardinality(found) # 1 THEN [err |-> "ErrNotFound", asset |-> RootAsset]
             ELSE IF v = file THEN [err |-> "", asset |-> CHOOSE x \in found : TRUE]
             ELSE Resolve(store, Tail(elements), CHOOSE x \in found : TRUE, file)

\* Client.GetMetadataFS
GetMetadataFS(store, filepath) == Resolve(store, Split(filepath), RootAsset, PathBase(filepath))

\* What the drive can answer to an upload of `name` into folder `parent`:
\* 201, or 409 when the folder already holds the name; 500 and a failed
\* request are the faults.
Answers(store, parent, name) ==
    (IF \E x \in store : x.parent = parent /\ x.name = name
     THEN {"Conflict"} ELSE {"Created"}) \cup {"Error"}

\* A drive that replaces the object it already holds; C1 does not hold of it.
UploadJSONOverwrite(store, parent, name, payload, answer) ==
    IF answer \in {"Created", "Conflict"}
    THEN [err |-> IF answer = "Created" THEN "" ELSE "CombinedError",
          status |-> IF answer = "Created" THEN StatusCreated ELSE StatusConflict,
          store |-> {x \in store : ~(x.parent = parent /\ x.name = name)}
                    \cup {Object(parent, name, payload)}]
    ELSE [err |-> "CombinedError", status |-> StatusError, store |-> store]

\* Client.UploadJSON: nil on 201, the CombinedError of any other status,
\* or the error of a request that failed.
UploadJSON(store, parent, name, payload, answer) ==
    IF answer = "Created"
    THEN [err |-> "", status |-> StatusCreated,
          store |-> store \cup {Object(parent, name, payload)}]
    ELSE IF answer = "Conflict"
    THEN [err |-> "CombinedError", status |-> StatusConflict, store |-> store]
    ELSE IF answer = "Error"
    THEN [err |-> "CombinedError", status |-> StatusError, store |-> store]
    ELSE [err |-> "error", status |-> 0, store |-> store]

\* Client.MkdirJSON below the root
MkdirJSON(store, name) ==
    IF \E x \in store : x.parent = <<>> /\ x.name = name
    THEN [err |-> "CombinedError", status |-> StatusConflict, store |-> store]
    ELSE [err |-> "", status |-> StatusCreated, store |-> store \cup {Folder(name)}]

(***************************************************************************)
(* acdbackup: the key lifecycle of acdb.online                             *)
(***************************************************************************)

ZeroBundle == [MD |-> Zeros(KeySize), Data |-> Zeros(KeySize), Dedup |-> Zeros(KeySize)]

\* How many bytes of a derived key its goroutine has cleared when the key
\* is used: none, some, all.
RaceOutcomes == {0, 1, KeySize}

\* A LoadKeys that generates keys on every call; C21 does not hold of it.
LoadKeysAnew(file, new) == <<new>>

\* shared.LoadKeys: the key file, created with new keys when it is missing.
LoadKeys(file, new) == IF file = <<>> THEN <<new>> ELSE file

\* acdb.makeDirectories: a Conflict leaves the folder as it is.
MakeDirectories(st) == MkdirJSON(MkdirJSON(st, DataName).store, MetadataName).store

SecretsPath == MetadataName \o Slash \o SecretsName

\* acdb.verifySecrets on what KeysDecrypt returned
CompareKeys(keys, kk) ==
    IF kk.err # "" THEN kk.err
    ELSE IF keys.MD = kk.keys[1].MD /\ keys.Data = kk.keys[1].Data
            /\ keys.Dedup = kk.keys[1].Dedup
    THEN ""
    ELSE "remote secrets not identical to local secrets"

\* acdb.verifySecrets
VerifySecrets(keys, p, secrets, zeroed) == CompareKeys(keys, KeysDecrypt(p, secrets, zeroed))

\* A downloadSecrets that takes any error of the lookup for "not found";
\* C25 does not hold of it.
OnlineSecretsAnyError(kf, s, password, look, zeroed) ==
    IF look.err # ""
    THEN [keyFile |-> kf, keys |-> kf[1], store |-> s, blob |-> NoBlob, checked |-> FALSE,
          next |-> "newpassword", err |-> ""]
    ELSE IF password = <<>>
    THEN [keyFile |-> kf, keys |-> kf[1], store |-> s, blob |-> look.asset.payload,
          checked |-> FALSE, next |-> "password", err |-> ""]
    ELSE [keyFile |-> kf, keys |-> kf[1], store |-> s, blob |-> look.asset.payload,
          checked |-> TRUE, next |-> "done",
          err |-> VerifySecrets(kf[1], password[1], look.asset.payload, zeroed)]

\* acdb.online and acdb.downloadSecrets up to the first prompt: the next
\* position is "newpassword" (uploadSecrets), "password" (the prompt of
\* downloadSecrets), or "done" with the error online returns.
OnlineSecrets(kf, s, password, look, zeroed) ==
    IF look.err = "ErrNotFound"
    THEN [keyFile |-> kf, keys |-> kf[1], store |-> s, blob |-> NoBlob, checked |-> FALSE,
          next |-> "newpassword", err |-> ""]
    ELSE IF look.err # ""
    THEN [keyFile |-> kf, keys |-> kf[1], store |-> s, blob |-> NoBlob, checked |-> FALSE,
          next |-> "done", err |-> "remote object not found"]
    ELSE IF password = <<>>
    THEN [keyFile |-> kf, keys |-> kf[1], store |-> s, blob |-> look.asset.payload,
          checked |-> FALSE, next |-> "password", err |-> ""]
    ELSE [keyFile |-> kf, keys |-> kf[1], store |-> s, blob |-> look.asset.payload,
          checked |-> TRUE, next |-> "done",
          err |-> VerifySecrets(kf[1], password[1], look.asset.payload, zeroed)]

OnlineFolders(kf, s, password, zeroed) ==
    OnlineSecrets(kf, s, password, GetMetadataFS(s, SecretsPath), zeroed)

Online(file, password, st, new, zeroed) ==
    OnlineFolders(LoadKeys(file, new),
                  IF {Folder(DataName), Folder(MetadataName)} \subseteq st THEN st
                  ELSE MakeDirectories(st),
                  password, zeroed)

\* The requests of online() that can fail for a reason of their own: no
\* client (token or root), the listing of the root folders, the creation
\* of data/ and metadata/, the lookup of metadata/secrets, its download.
Faults == {"none", "client", "children", "mkdir", "lookup", "download"}

\* online() returns `err` before it reaches downloadSecrets.
OnlineFailed(kf, keys, s, err) ==
    [keyFile |-> kf, keys |-> keys, store |-> s, blob |-> NoBlob, checked |-> FALSE,
     next |-> "done", err |-> err]

FoldersExist(st) == {Folder(DataName), Folder(MetadataName)} \subseteq st

\* GetMetadataFS when a GetChildrenJSON of it fails, and DownloadJSON when
\* it fails, in downloadSecrets.
FaultySecrets(kf, s, password, look, zeroed, fault) ==
    IF fault = "lookup"
    THEN OnlineSecrets(kf, s, password, [err |-> "error", asset |-> RootAsset], zeroed)
    ELSE IF fault = "download" /\ look.err = ""
    THEN OnlineFailed(kf, kf[1], s, "download failed")
    ELSE OnlineSecrets(kf, s, password, look, zeroed)

\* acdb.online when the request `fault` fails; a request the run does not
\* make cannot fail.
OnlineWith(file, password, st, new, zeroed, fault) ==
    IF fault = "client"
    THEN OnlineFailed(file, ZeroBundle, st, "could not acquire client")
    ELSE IF fault = "children"
    THEN OnlineFailed(LoadKeys(file, new), LoadKeys(file, new)[1], st,
                      "could not list root folders")
    ELSE IF fault = "mkdir" /\ ~FoldersExist(st)
    THEN OnlineFailed(LoadKeys(file, new), LoadKeys(file, new)[1],
                      MkdirJSON(st, DataName).store,
                      "could not create required directories")
    ELSE IF fault \in {"lookup", "download"}
    THEN FaultySecrets(LoadKeys(file, new),
                       IF FoldersExist(st) THEN st ELSE MakeDirectories(st), password,
                       GetMetadataFS(IF FoldersExist(st) THEN st ELSE MakeDirectories(st),
                                     SecretsPath),
                       zeroed, fault)
    ELSE Online(file, password, st, new, zeroed)

\* The position after online() returned nil: filepath.Walk in archive, the
\* manifest in list.
AfterOnline(mode) == IF mode = "create" THEN "walk" ELSE "open"

\* Where a run goes with the error online() returned.
AfterError(mode, err) == IF err = "" THEN AfterOnline(mode) ELSE "return"

(***************************************************************************)
(* The inputs of the model                                                 *)
(***************************************************************************)

Key(c) == Fill(KeySize, c)

Nonce(c) == Fill(NonceSize, c)

Nonces == {Nonce(1), Nonce(2)}

ContentBytes == {0, 120}

Contents == UNION {[1..n -> ContentBytes] : n \in 0..MaxContent}

Files == [content : Contents, comp : BOOLEAN]

DataKeys == {Key(11), Key(12), Key(13)}

NoResult == DecryptFailure("none")

\* Passwords: "hunter2" and "Hunter2".
Hunter2 == <<104, 117, 110, 116, 101, 114, 50>>

HunterCap == <<72, 117, 110, 116, 101, 114, 50>>

Passwords == {Hunter2, HunterCap}

\* terminal.ReadPassword fails: no password is read.
NoPassword == <<>>

Salts == {Key(1), Key(2)}

Bundle(c) == [MD |-> Key(c), Data |-> Key(c + 1), Dedup |-> Key(c + 2)]

Bundles == {Bundle(11), Bundle(21)}

\* Paths "d", "d/a", "d/b", "d/e".
PathD == <<100>>

PathDA == <<100, 47, 97>>

PathDB == <<100, 47, 98>>

PathDE == <<100, 47, 101>>

ModeDir755 == <<128, 0, 1, 237>>

ModeDir700 == <<128, 0, 1, 192>>

ModeFile644 == <<0, 0, 1, 164>>

ModeSymlink777 == <<8, 0, 1, 255>>

ModePipe644 == <<2, 0, 1, 164>>

Time1 == [sec |-> 37, frac |-> 0]

Time2 == [sec |-> 5, frac |-> 5]

\* uid 1000, and uid 4294967294: a uid_t is an unsigned 32-bit number.
Uid1000 == U32(1000)

UidHigh == <<255, 255, 255, 254>>

\* An os.FileInfo: Mode(), Size(), ModTime() and Sys().
Info(mode, uid, size, mtime, stat) ==
    [mode |-> mode, uid |-> uid, gid |-> uid, size |-> U64(size), mtime |-> mtime,
     stat |-> stat]

\* What a manifest entry is written from.
EntryInput(kind, path, fi, link, mime, digest) ==
    [kind |-> kind, path |-> path, fi |-> fi, link |-> link, mime |-> mime,
     digest |-> digest]

NoInfo == Info(Zeros(4), Zeros(4), 0, ZeroTime, TRUE)

EntryInputs ==
    { EntryInput("dir", PathD, Info(ModeDir755, Uid1000, 0, Time1, TRUE), <<>>, <<>>, <<>>),
      EntryInput("dir", PathD, Info(ModeDir755, Uid1000, 0, Time2, FALSE), <<>>, <<>>, <<>>),
      EntryInput("symlink", PathDB, NoInfo, <<46, 46, 47, 97>>, <<>>, <<>>),
      EntryInput("file", PathDA, Info(ModeFile644, Uid1000, 1, Time2, TRUE), <<>>,
                 MimeText, HmacSha256(Key(13), <<120>>)),
      EntryInput("file", PathDA, Info(ModeFile644, UidHigh, 1, Time1, TRUE), <<>>,
                 MimePng, HmacSha256(Key(13), <<120>>)),
      EntryInput("file", PathDE, Info(ModeFile644, Uid1000, 0, Time1, TRUE), <<>>,
                 <<>>, <<>>) }

\* The content of a file decides what http.DetectContentType makes of it:
\* in the model a first byte 137 is an image, anything else text.
TreeFile(content) == [content |-> content, comp |-> (content = <<>> \/ content[1] # 137)]

\* What filepath.Walk hands to acdb.walk for one path.
TreeNode(path, fi, content, link, err) ==
    [path |-> path, fi |-> fi, content |-> content, link |-> link, err |-> err]

NodeDir(path) == TreeNode(path, Info(ModeDir755, Uid1000, 0, Time1, TRUE), <<>>, <<>>, FALSE)

\* A directory with mode 0700.
NodeDirPrivate(path) ==
    TreeNode(path, Info(ModeDir700, Uid1000, 0, Time1, TRUE), <<>>, <<>>, FALSE)

NodeFile(path, content) ==
    TreeNode(path, Info(ModeFile644, Uid1000, Len(content), Time2, TRUE), content, <<>>,
             FALSE)

\* A symbolic link at path whose text is link.
NodeSymlink(path, link) ==
    TreeNode(path, Info(ModeSymlink777, Uid1000, 0, Time1, TRUE), <<>>, link, FALSE)

NodePipe(path) == TreeNode(path, Info(ModePipe644, Uid1000, 0, Time1, TRUE), <<>>, <<>>, FALSE)

NodeError(path) == TreeNode(path, NoInfo, <<>>, <<>>, TRUE)

ContentX == <<120>>

ContentPng == <<137, 80>>

\* The trees a create run walks, each in the order filepath.Walk visits it:
\* files that share their content or not, an empty file, a link d/b -> a to
\* the file beside it, a link d/b -> ../a to nothing, a pipe, a directory
\* in a directory, a path Walk reports an error for.
Trees ==
    { <<NodeDir(PathD), NodeFile(PathDA, ContentX), NodeFile(PathDB, ContentX)>>,
      <<NodeDir(PathD), NodeFile(PathDA, ContentX), NodeFile(PathDB, ContentPng)>>,
      <<NodeDir(PathD), NodeFile(PathDA, ContentX), NodeFile(PathDE, <<>>)>>,
      <<NodeDir(PathD), NodeFile(PathDA, ContentX), NodeSymlink(PathDB, <<97>>)>>,
      <<NodeDir(PathD), NodeSymlink(PathDB, <<46, 46, 47, 97>>), NodeFile(PathDE, <<>>)>>,
      <<NodeDirPrivate(PathD), NodePipe(PathDA), NodeDirPrivate(PathDE)>>,
      <<NodeError(PathD)>> }

\* "-" and "m": the manifest goes to the drive, or to the local file m.
Dash == <<45>>

LocalTarget == <<109>>

\* Extraction roots (-C): "r", the default "", and "x/y".
RootR == <<114>>

Roots == {RootR, <<>>, <<120, 47, 121>>}

\* time.Now().Format("20060102.150405") at second t of the model's minute.
StampName(t) == <<50, 48, 49, 53, 49, 48, 49, 55, 46, 49, 48, 48, 56>> \o TwoDigits(t)

\* The runs of the tool in one behaviour, the seconds of its clock, and the
\* prompts one run answers.
MaxRuns == 2

MaxClock == 1

MaxPrompts == 2

\* The entries a manifest may hold in the codec's own specification.
MaxEntries == 2

VARIABLES
    \* sealing and opening one file
    envFile, envCompress, envKey, envOpenKey, envBlob, envOut, envPc,
    \* wrapping and unwrapping the key bundle
    kBundle, kPass, kPass2, kSalt, kKey, kZ, kBlob, kOut, kPc,
    \* the secret buffers the functions that obtained them have left behind
    kLeft,
    \* writing and reading one manifest
    mEnc, mSink, mWritten, mDec, mRead, mEnd, mPc,
    \* the machine: key file, password file, local manifest m, the files
    \* under the extraction root, and the tree that is backed up
    keyFile, pwFile, localMd, fs, tree,
    \* the drive, the clock, the random source
    store, now, nonceCtr,
    \* one run of acdbackup: the acdb struct, the manifest encoder and its
    \* file, the walk, the decoder, the directories awaiting permissions,
    \* the downloaded secrets, the position and the error to return
    a, me, f, idx, md, permList, blob, pc, exit,
    \* what the runs did: uploads, lookups on the drive, prompts, the last
    \* verification, the entries written, the entries listed, the runs
    uploads, lookups, prompts, verified, written, listed, hist

envVars == <<envFile, envCompress, envKey, envOpenKey, envBlob, envOut, envPc>>

keyVars == <<kBundle, kPass, kPass2, kSalt, kKey, kZ, kBlob, kOut, kPc, kLeft>>

manVars == <<mEnc, mSink, mWritten, mDec, mRead, mEnd, mPc>>

diskVars == <<keyFile, pwFile, localMd, fs, tree>>

driveVars == <<store, now, nonceCtr>>

progVars == <<a, me, f, idx, md, permList, blob, pc, exit>>

logVars == <<uploads, lookups, prompts, verified, written, listed, hist>>

runVars == <<diskVars, driveVars, progVars, logVars>>

vars == <<envVars, keyVars, manVars, runVars>>

\* a.root, the extraction root of the run.
Root == a.root

\* Each part of the model at rest, for the specifications of the other parts.
EnvIdle ==
    /\ envFile = [content |-> <<>>, comp |-> FALSE]
    /\ envCompress = FALSE
    /\ envKey = Key(11)
    /\ envOpenKey = Key(11)
    /\ envBlob = NoBlob
    /\ envOut = NoResult
    /\ envPc = "idle"

KeysIdle ==
    /\ kBundle = Bundle(11)
    /\ kPass = Hunter2
    /\ kPass2 = Hunter2
    /\ kSalt = Key(1)
    /\ kKey = <<>>
    /\ kZ = 0
    /\ kBlob = NoBlob
    /\ kOut = KeysFailure("none")
    /\ kPc = "idle"
    /\ kLeft = {}

ManIdle ==
    /\ mEnc = NewEncoder(FALSE).m
    /\ mSink = <<>>
    /\ mWritten = <<>>
    /\ mDec = NewReader(<<>>, "EOF")
    /\ mRead = <<>>
    /\ mEnd = ""
    /\ mPc = "idle"

NoRun == [mode |-> "", target |-> <<>>, compress |-> FALSE, perms |-> FALSE,
          root |-> <<>>, keys |-> ZeroBundle]

NotVerified == [called |-> FALSE, err |-> "", source |-> ""]

\* No run of acdbackup is under way.
ProgIdle ==
    /\ a = NoRun
    /\ me = NewEncoder(FALSE).m
    /\ f = <<>>
    /\ idx = 1
    /\ md = NewReader(<<>>, "EOF")
    /\ permList = <<>>
    /\ blob = NoBlob
    /\ pc = "idle"
    /\ exit = ""
    /\ uploads = <<>>
    /\ lookups = {}
    /\ prompts = 0
    /\ verified = NotVerified
    /\ written = <<>>
    /\ listed = <<>>
    /\ hist = <<>>
    /\ now = 0
    /\ nonceCtr = 0
    /\ localMd = <<>>
    /\ fs = {}

RunIdle ==
    /\ ProgIdle
    /\ keyFile = <<Bundle(11)>>
    /\ pwFile = <<>>
    /\ tree = <<>>
    /\ store = {}

(***************************************************************************)
(* Sealing a file and opening the result                                   *)
(***************************************************************************)

EnvStart ==
    /\ envFile \in Files
    /\ envCompress \in BOOLEAN
    /\ envKey \in DataKeys
    /\ envOpenKey \in DataKeys
    /\ envBlob = NoBlob
    /\ envOut = NoResult
    /\ envPc = "seal"

EnvInit == EnvStart /\ KeysIdle /\ ManIdle /\ RunIdle

EnvEncrypt ==
    /\ envPc = "seal"
    /\ \E nonce \in Nonces :
          envBlob' = FileNaClEncrypt(envFile, envCompress, envKey, nonce)
    /\ envPc' = "open"
    /\ UNCHANGED <<envFile, envCompress, envKey, envOpenKey, envOut>>
    /\ UNCHANGED <<keyVars, manVars, runVars>>

EnvDecrypt ==
    /\ envPc = "open"
    /\ envOut' = NaClDecrypt(envBlob, envOpenKey)
    /\ envPc' = "done"
    /\ UNCHANGED <<envFile, envCompress, envKey, envOpenKey, envBlob>>
    /\ UNCHANGED <<keyVars, manVars, runVars>>

EnvNext == EnvEncrypt \/ EnvDecrypt

SpecEnvelope == EnvInit /\ [][EnvNext]_vars

\* C4: opening a sealed file with the key it was sealed under succeeds and
\* returns the file's bytes and a header with Version 1, Size = len(B) and
\* Digest = SHA256(B), whichever compression tag was chosen.
C4_EnvelopeRoundTrip ==
    (envPc = "done" /\ envOpenKey = envKey) =>
        /\ envOut.err = ""
        /\ envOut.body = <<envFile.content>>
        /\ Len(envOut.header) = 1
        /\ envOut.header[1].Version = GoInt(1)
        /\ envOut.header[1].Size = U64(Len(envFile.content))
        /\ envOut.header[1].Digest = Sha256(envFile.content)
        /\ envOut.header[1].Compression \in {CompNone, CompGZIP}

C4_Witness ==
    /\ envPc = "done" /\ envOpenKey = envKey
    /\ envOut.err = ""
    /\ Len(envOut.header) = 1 /\ envOut.header[1].Compression = CompGZIP
    /\ Len(envFile.content) = MaxContent

\* C5: opening with any other key fails with the decrypt error and returns
\* neither a header nor plaintext.
C5_WrongKeyFails ==
    (envPc = "done" /\ envOpenKey # envKey) =>
        /\ envOut.err = "could not decrypt body"
        /\ envOut.header = <<>>
        /\ envOut.body = <<>>

C5_Witness ==
    /\ envPc = "done" /\ envOpenKey # envKey /\ envFile.content # <<>>
    /\ envOut.err = "could not decrypt body"

(***************************************************************************)
(* Wrapping the key bundle and unwrapping it, with the goroutine that      *)
(* clears the derived key running beside the caller                        *)
(***************************************************************************)

KeysStart ==
    /\ kBundle \in Bundles
    /\ kPass \in Passwords
    /\ kPass2 \in Passwords
    /\ kSalt = Key(1)
    /\ kKey = <<>>
    /\ kZ = 0
    /\ kBlob = NoBlob
    /\ kOut = KeysFailure("none")
    /\ kPc = "prompt"
    /\ kLeft = {}

KeysInit == KeysStart /\ EnvIdle /\ ManIdle /\ RunIdle

\* A buffer that held a secret, as the function that obtained it left it.
Buffer(of, bytes) == [of |-> of, bytes |-> bytes]

\* The buffers one turn of the loop of shared.PromptPassword leaves when the
\* user types p1 and then p2 (NoPassword: terminal.ReadPassword fails).
\* The deferred goutil.Zero(p2) clears the p2 of the turn that returns; the
\* p1 and p2 of a turn that did not match are overwritten by the next
\* ReadPassword without being cleared, and p1 is returned to the caller.
PromptBuffers(p1, p2) ==
    IF p2 = NoPassword THEN {Buffer("p1", p1)}
    ELSE IF p1 = p2 THEN {Buffer("p2", Zeros(Len(p2)))}
    ELSE {Buffer("p1", p1), Buffer("p2", p2)}

\* One turn of the loop of shared.PromptPassword.
Prompt ==
    /\ kPc = "prompt"
    /\ \E p2 \in Passwords \cup {NoPassword} :
          /\ kLeft' = kLeft \cup PromptBuffers(kPass, p2)
          /\ kPc' = IF p2 = NoPassword THEN "failed"
                    ELSE IF p2 = kPass THEN "encrypt"
                    ELSE "prompt"
    /\ UNCHANGED <<kBundle, kPass, kPass2, kSalt, kKey, kZ, kBlob, kOut>>
    /\ UNCHANGED <<envVars, manVars, runVars>>

\* Keys.Encrypt up to `go func() { goutil.Zero(key[:]) }()`.
EncryptDerive ==
    /\ kPc = "encrypt"
    /\ \E salt \in Salts :
          /\ kSalt' = salt
          /\ kKey' = Scrypt(kPass, salt)
    /\ kZ' = 0
    /\ kPc' = "seal"
    /\ UNCHANGED <<kBundle, kPass, kPass2, kBlob, kOut, kLeft>>
    /\ UNCHANGED <<envVars, manVars, runVars>>

\* One step of goutil.Zero in the goroutine: the next byte of the key.
ZeroStep ==
    /\ kPc \in {"seal", "open"}
    /\ kZ < KeySize
    /\ kKey' = [kKey EXCEPT ![kZ + 1] = 0]
    /\ kZ' = kZ + 1
    /\ UNCHANGED <<kBundle, kPass, kPass2, kSalt, kBlob, kOut, kPc, kLeft>>
    /\ UNCHANGED <<envVars, manVars, runVars>>

\* The rest of Keys.Encrypt: NaClNonce, secretbox.Seal with the key as it
\* is now, the blob.  The key array is not read again: it is left as the
\* goroutine has cleared it so far.  uploadSecrets then clears the password
\* (the deferred goutil.Zero(p)).
EncryptSeal ==
    /\ kPc = "seal"
    /\ \E nonce \in {Nonce(1)} : kBlob' = SealKeys(kBundle, kSalt, nonce, kKey)
    /\ kLeft' = kLeft \cup {Buffer("key", kKey), Buffer("p", Zeros(Len(kPass)))}
    /\ kKey' = <<>>
    /\ kZ' = 0
    /\ kPc' = "decrypt"
    /\ UNCHANGED <<kBundle, kPass, kPass2, kSalt, kOut>>
    /\ UNCHANGED <<envVars, manVars, runVars>>

\* KeysDecrypt up to `go func() { goutil.Zero(key[:]) }()`.  A blob shorter
\* than salt and nonce ends the function in blob[0:KeySize],
\* blob[KeySize:KeySize+NonceSize] or blob[KeySize+NonceSize:].
DecryptDerive ==
    /\ kPc = "decrypt"
    /\ IF BlobLen(kBlob) < KeySize + NonceSize
       THEN /\ kOut' = KeysFailure(PanicSlice)
            /\ kPc' = "done"
            /\ UNCHANGED kKey
       ELSE /\ kKey' = Scrypt(kPass2, SubSeq(kBlob.pre, 1, KeySize))
            /\ kPc' = "open"
            /\ UNCHANGED kOut
    /\ kZ' = 0
    /\ UNCHANGED <<kBundle, kPass, kPass2, kSalt, kBlob, kLeft>>
    /\ UNCHANGED <<envVars, manVars, runVars>>

\* What the loop of downloadSecrets leaves of the password p it verified:
\* cleared by the deferred goutil.Zero(p) when the function returns, left
\* as it is when verifySecrets failed and the loop assigns p again.
VerifiedBuffer(p, err) == Buffer("p", IF err = "" THEN Zeros(Len(p)) ELSE p)

\* The rest of KeysDecrypt: secretbox.Open with the key as it is now.  The
\* key array is left as the goroutine has cleared it so far.
DecryptOpen ==
    /\ kPc = "open"
    /\ \E out \in {OpenKeys(kBlob, kKey)} :
          /\ kOut' = out
          /\ kLeft' = kLeft \cup {Buffer("key", kKey), VerifiedBuffer(kPass2, out.err)}
    /\ kKey' = <<>>
    /\ kZ' = 0
    /\ kPc' = "done"
    /\ UNCHANGED <<kBundle, kPass, kPass2, kSalt, kBlob>>
    /\ UNCHANGED <<envVars, manVars, runVars>>

KeysNext == Prompt \/ EncryptDerive \/ ZeroStep \/ EncryptSeal \/ DecryptDerive \/ DecryptOpen

SpecKeys == KeysInit /\ [][KeysNext]_vars

\* C6: unwrapping a wrapped bundle with the same password returns the
\* bundle, and with any other password the bad-password error and no
\* bundle, in every execution of Encrypt and KeysDecrypt.
C6_WrapRoundTrip ==
    kPc = "done" =>
        IF kPass2 = kPass
        THEN kOut.err = "" /\ kOut.keys = <<kBundle>>
        ELSE kOut.err = "could not decrypt" /\ kOut.keys = <<>>

(***************************************************************************)
(* Writing one manifest with the encoder and reading it with the decoder   *)
(***************************************************************************)

ManStart ==
    /\ \E compress \in BOOLEAN :
          /\ mEnc = NewEncoder(compress).m
          /\ mSink = NewEncoder(compress).out
    /\ mWritten = <<>>
    /\ mDec = NewReader(<<>>, "EOF")
    /\ mRead = <<>>
    /\ mEnd = ""
    /\ mPc = "write"

ManInit == ManStart /\ EnvIdle /\ KeysIdle /\ RunIdle

\* MetadataEncoder.Dir
ManDir ==
    /\ mPc = "write"
    /\ Len(mWritten) < MaxEntries
    /\ \E i \in {x \in EntryInputs : x.kind = "dir"} :
          LET w == EncoderDir(mEnc, i.path, i.fi)
          IN  /\ mEnc' = w.m
              /\ mSink' = mSink \o w.out
              /\ mWritten' = Append(mWritten, DirOf(i.path, i.fi))
    /\ UNCHANGED <<mDec, mRead, mEnd, mPc>>
    /\ UNCHANGED <<envVars, keyVars, runVars>>

\* MetadataEncoder.Symlink, the link resolved
ManSymlink ==
    /\ mPc = "write"
    /\ Len(mWritten) < MaxEntries
    /\ \E i \in {x \in EntryInputs : x.kind = "symlink"} :
          LET w == EncoderSymlink(mEnc, i.path, TRUE, i.link)
          IN  /\ mEnc' = w.m
              /\ mSink' = mSink \o w.out
              /\ mWritten' = Append(mWritten, SymlinkOf(i.path, i.link))
    /\ UNCHANGED <<mDec, mRead, mEnd, mPc>>
    /\ UNCHANGED <<envVars, keyVars, runVars>>

\* MetadataEncoder.File
ManFile ==
    /\ mPc = "write"
    /\ Len(mWritten) < MaxEntries
    /\ \E i \in {x \in EntryInputs : x.kind = "file"} :
          LET w == EncoderFile(mEnc, i.path, i.fi, i.mime, i.digest)
          IN  /\ mEnc' = w.m
              /\ mSink' = mSink \o w.out
              /\ mWritten' = Append(mWritten, FileOf(i.path, i.fi, i.mime, i.digest))
    /\ UNCHANGED <<mDec, mRead, mEnd, mPc>>
    /\ UNCHANGED <<envVars, keyVars, runVars>>

\* MetadataEncoder.Flush, after which the manifest is read
ManFlush ==
    /\ mPc = "write"
    /\ LET w == EncoderFlush(mEnc)
       IN  /\ mEnc' = w.m
           /\ mSink' = mSink \o w.out
    /\ mPc' = "open"
    /\ UNCHANGED <<mWritten, mDec, mRead, mEnd>>
    /\ UNCHANGED <<envVars, keyVars, runVars>>

\* metadata.NewDecoder over what was written
ManNewDecoder ==
    /\ mPc = "open"
    /\ LET n == NewDecoder(mSink)
       IN  IF n.err # ""
           THEN mEnd' = n.err /\ mPc' = "done" /\ mDec' = mDec
           ELSE mEnd' = mEnd /\ mPc' = "read" /\ mDec' = n.d
    /\ UNCHANGED <<mEnc, mSink, mWritten, mRead>>
    /\ UNCHANGED <<envVars, keyVars, runVars>>

\* MetadataDecoder.Next, until it returns an error
ManNext ==
    /\ mPc = "read"
    /\ LET n == Next(mDec)
       IN  /\ mDec' = n.d
           /\ IF n.err # ""
              THEN mEnd' = n.err /\ mPc' = "done" /\ mRead' = mRead
              ELSE mEnd' = mEnd /\ mPc' = mPc /\ mRead' = Append(mRead, n.val)
    /\ UNCHANGED <<mEnc, mSink, mWritten>>
    /\ UNCHANGED <<envVars, keyVars, runVars>>

ManStep == ManDir \/ ManSymlink \/ ManFile \/ ManFlush \/ ManNewDecoder \/ ManNext

SpecManifest == ManInit /\ [][ManStep]_vars

\* C7: what the decoder returns for a written and flushed manifest is the
\* sequence of entries that were written, same kinds, same fields, same
\* order, and then end of stream.
C7_ManifestRoundTrip == mPc = "done" => (mEnd = "EOF" /\ mRead = mWritten)

\* The same for manifests whose owners and groups fit in 31 bits.
SmallOwners ==
    \A i \in 1..Len(mWritten) :
        mWritten[i].Owner[5] < 128 /\ mWritten[i].Group[5] < 128

ManifestRoundTripSmallOwners ==
    (mPc = "done" /\ SmallOwners) => (mEnd = "EOF" /\ mRead = mWritten)

(***************************************************************************)
(* Manifests that reach the decoder damaged: cut short, or holding a tag   *)
(* that is no entry type                                                   *)
(***************************************************************************)

\* A tag that is none of TypeDir, TypeSymlink, TypeFile.
TypeUnknown == <<120, 120, 120, 120>>

UnknownEntry == [ZeroEntry EXCEPT !.type = "unknown"]

\* The manifest has been written by something that put TypeUnknown where a
\* tag belongs.
ManBadTag ==
    /\ mPc = "write"
    /\ Len(mWritten) < MaxEntries
    /\ LET w == EncoderWrite(mEnc, TypeUnknown)
       IN  /\ mEnc' = w.m
           /\ mSink' = mSink \o w.out
           /\ mWritten' = Append(mWritten, UnknownEntry)
    /\ UNCHANGED <<mDec, mRead, mEnd, mPc>>
    /\ UNCHANGED <<envVars, keyVars, runVars>>

\* The most bytes one truncation takes off a manifest.
MaxCut == 6

\* The manifest loses its last k bytes before it is read; what is left is
\* still opened by NewDecoder.
ManTruncate ==
    /\ mPc = "open"
    /\ \E k \in 1..MaxCut :
          /\ NewDecoder(SubSeq(mSink, 1, Len(mSink) - k)).err = ""
          /\ mSink' = SubSeq(mSink, 1, Len(mSink) - k)
    /\ UNCHANGED <<mEnc, mWritten, mDec, mRead, mEnd, mPc>>
    /\ UNCHANGED <<envVars, keyVars, runVars>>

DamagedStep == ManStep \/ ManBadTag \/ ManTruncate

SpecDamaged == ManInit /\ [][DamagedStep]_vars

\* The bytes of one record, tag and body, as the encoder writes them.
RecordOf(e) ==
    IF e.type = "dir" THEN TypeDir \o MarshalDir(e)
    ELSE IF e.type = "symlink" THEN TypeSymlink \o MarshalSymlink(e)
    ELSE IF e.type = "file" THEN TypeFile \o MarshalFile(e)
    ELSE TypeUnknown

\* The length of the first k records of the manifest.
RECURSIVE RecordsLen(_)
RecordsLen(k) == IF k = 0 THEN 0 ELSE RecordsLen(k - 1) + Len(RecordOf(mWritten[k]))

\* The length of the input Next decodes: what follows the header, inflated
\* when the manifest is compressed.
InputLen ==
    IF mEnc.compress THEN Len(mDec.data) ELSE Len(mDec.data) - Len(NewEncoder(FALSE).out)

\* What Next has consumed of its input.
InputOff ==
    IF mEnc.compress THEN mDec.off ELSE mDec.off - Len(NewEncoder(FALSE).out)

\* The number of records the input holds whole.
Whole ==
    CHOOSE k \in 0..Len(mWritten) :
        /\ RecordsLen(k) <= InputLen
        /\ \A j \in (k + 1)..Len(mWritten) : RecordsLen(j) > InputLen

OnBoundary == InputLen = RecordsLen(Whole)

KnownTypes == \A i \in 1..Len(mWritten) : mWritten[i].type # "unknown"

BadManifest == {"ErrType", "ErrTypeDir", "ErrTypeSymlink", "ErrTypeFile"}

\* C11: Next returns end of stream only when its input ends on a record
\* boundary; when the input ends inside a record, in the tag or in the
\* body, Next returns a bad-manifest error; and the entries before the cut
\* have been returned as they were written.
C11_TruncatedManifest ==
    (mPc = "done" /\ SmallOwners /\ KnownTypes) =>
        /\ mRead = SubSeq(mWritten, 1, Whole)
        /\ (mEnd = "EOF" => OnBoundary)
        /\ (~OnBoundary => mEnd \in BadManifest)

\* What does hold: a cut in the body of a record is a bad-manifest error, a
\* cut in the tag is taken for the end of the stream.
CutInTag == ~OnBoundary /\ InputLen - RecordsLen(Whole) < Len(TypeDir)

TruncatedManifestAsDecoded ==
    (mPc = "done" /\ SmallOwners /\ KnownTypes) =>
        /\ mRead = SubSeq(mWritten, 1, Whole)
        /\ (mEnd = "EOF" <=> (OnBoundary \/ CutInTag))
        /\ (~OnBoundary /\ ~CutInTag => mEnd \in BadManifest)

\* The first record of the manifest whose tag is TypeUnknown.
FirstUnknown ==
    CHOOSE k \in 1..Len(mWritten) :
        /\ mWritten[k].type = "unknown"
        /\ \A j \in 1..(k - 1) : mWritten[j].type # "unknown"

\* The input holds the whole of that tag.
UnknownTagRead == ~KnownTypes /\ InputLen >= RecordsLen(FirstUnknown)

\* The decoder's part of C20: at a whole tag that is no entry type Next
\* returns the unknown-type error, having returned the entries before it
\* and consumed nothing after the tag.
UnknownTagStopsDecoder ==
    (mPc = "done" /\ SmallOwners /\ UnknownTagRead) =>
        /\ mEnd = "ErrType"
        /\ mRead = SubSeq(mWritten, 1, FirstUnknown - 1)
        /\ InputOff = RecordsLen(FirstUnknown)

UnknownTagWitness ==
    /\ mPc = "done" /\ SmallOwners /\ UnknownTagRead
    /\ FirstUnknown < Len(mWritten)
    /\ InputLen > RecordsLen(FirstUnknown)
    /\ mEnd = "ErrType"

(***************************************************************************)
(* acdbackup: one run after another of create, extract and list            *)
(***************************************************************************)

otherVars == <<envVars, keyVars, manVars>>

NoDecoder == NewReader(<<>>, "EOF")

\* What is remembered of a run: its flags, whether the extraction root was
\* empty when it started, the name its manifest got, how it ended.
RunRecord(mode, target, compress, perms, fresh) ==
    [mode |-> mode, target |-> target, compress |-> compress, perms |-> perms,
     fresh |-> fresh, manifest |-> <<>>, exit |-> "", done |-> FALSE]

UploadRecord(run, path, parent, name, payload, answer) ==
    [run |-> run, path |-> path, parent |-> parent, name |-> name, payload |-> payload,
     answer |-> answer]

\* _main -c and acdb.archive up to the return of online(): the target is
\* created, the encoder writes the manifest header, the tool goes online.
StartCreateWith(faults) ==
    /\ pc = "idle"
    /\ Len(hist) < MaxRuns
    /\ \E compress \in BOOLEAN, target \in {Dash, LocalTarget}, new \in Bundles,
          z \in RaceOutcomes, fault \in faults :
          \E enc \in {NewEncoder(compress)},
             o \in {OnlineWith(keyFile, pwFile, store, new, z, fault)} :
              /\ a' = [mode |-> "create", target |-> target, compress |-> compress,
                       perms |-> FALSE, root |-> <<>>, keys |-> o.keys]
              /\ me' = enc.m
              /\ f' = enc.out
              /\ localMd' = IF target = LocalTarget THEN <<enc.out>> ELSE localMd
              /\ keyFile' = o.keyFile
              /\ store' = o.store
              /\ blob' = o.blob
              /\ verified' = IF o.checked
                             THEN [called |-> TRUE, err |-> o.err, source |-> "file"]
                             ELSE NotVerified
              /\ exit' = o.err
              /\ pc' = IF o.next = "done" THEN AfterError("create", o.err) ELSE o.next
              /\ hist' = Append(hist, RunRecord("create", target, compress, FALSE, fs = {}))
    /\ idx' = 1
    /\ md' = NoDecoder
    /\ permList' = <<>>
    /\ prompts' = 0
    /\ lookups' = {}
    /\ written' = <<>>
    /\ listed' = <<>>
    /\ UNCHANGED <<pwFile, fs, tree, now, nonceCtr, uploads>>
    /\ UNCHANGED otherVars

\* A run of -c in which every request of online() is answered.
StartCreate == StartCreateWith({"none"})

\* What acdb.uploadSecrets makes of the result of UploadJSON: asset.ID is
\* read unless an error was returned, and asset is nil after any error.
UploadSecretsError(up) ==
    IF up.err = "" THEN ""
    ELSE IF up.err = "CombinedError" /\ up.status # StatusConflict
    THEN "secrets appeared unexpectedly"
    ELSE PanicNil

\* acdb.uploadSecrets: PromptPassword(true) saves the password, Encrypt
\* wraps the keys, UploadJSON stores them; asset.ID is read whenever the
\* function has not returned an error.
NewPassword ==
    /\ pc = "newpassword"
    /\ \E p \in Passwords \cup {NoPassword}, salt \in Salts, z \in RaceOutcomes,
          answer \in Answers(store, MetadataName, SecretsName) \cup {"Failed"} :
          \E secrets \in {KeysEncrypt(a.keys, p, salt, Nonce(nonceCtr + 1), z)} :
          \E up \in {UploadJSON(store, MetadataName, SecretsName, secrets, answer)} :
          \E err \in {UploadSecretsError(up)} :
              IF p = NoPassword
              THEN /\ exit' = "could not read password"
                   /\ pc' = "return"
                   /\ UNCHANGED <<pwFile, store, nonceCtr, uploads>>
              ELSE /\ pwFile' = <<p>>
                   /\ store' = up.store
                   /\ nonceCtr' = nonceCtr + 1
                   /\ uploads' = Append(uploads,
                          UploadRecord(Len(hist), <<>>, MetadataName, SecretsName, secrets,
                                       answer))
                   /\ exit' = err
                   /\ pc' = AfterError(a.mode, err)
    /\ prompts' = prompts + 1
    /\ UNCHANGED <<keyFile, localMd, fs, tree, now, a, me, f, idx, md, permList, blob,
                   lookups, verified, written, listed, hist>>
    /\ UNCHANGED otherVars

\* One turn of the loop of acdb.downloadSecrets without a password file:
\* PromptPassword(false), verifySecrets, and on any error of it `continue`.
EnterPassword ==
    /\ pc = "password"
    /\ prompts < MaxPrompts
    /\ \E p \in Passwords \cup {NoPassword}, z \in RaceOutcomes :
          \E err \in {IF p = NoPassword THEN "" ELSE VerifySecrets(a.keys, p, blob, z)} :
              IF p = NoPassword
              THEN /\ exit' = "could not read password"
                   /\ pc' = "return"
                   /\ UNCHANGED <<pwFile, verified>>
              ELSE /\ verified' = [called |-> TRUE, err |-> err, source |-> "prompt"]
                   /\ pwFile' = IF err = "" THEN <<p>> ELSE pwFile
                   /\ exit' = IF err = PanicSlice THEN err ELSE ""
                   /\ pc' = IF err = "" THEN AfterOnline(a.mode)
                            ELSE IF err = PanicSlice THEN "return"
                            ELSE "password"
    /\ prompts' = prompts + 1
    /\ UNCHANGED <<keyFile, localMd, fs, tree, store, now, nonceCtr, a, me, f, idx, md,
                   permList, blob, uploads, lookups, written, listed, hist>>
    /\ UNCHANGED otherVars

\* What acdb.walk does with one path before any upload: the bytes the
\* encoder emits, the entry it wrote, and the object to upload, if any.
\* filepath.EvalSymlinks(n.path) in the tree that is walked: the path the
\* link names, when something other than a link is there.
LinkTarget(n) == PathJoin(PathDir(n.path), n.link)

LinkResolves(t, n) ==
    \E i \in 1..Len(t) :
        t[i].path = LinkTarget(n) /\ ~t[i].err /\ ~IsSymlinkMode(t[i].fi.mode)

\* acdb.walk of node n of tree t, a regular file holding `later` by the time
\* FileNaClEncrypt copies it.
WalkEntry(m, keys, compress, t, n, later, nonce) ==
    LET file == TreeFile(n.content)
        digest == HmacSha256(keys.Dedup, n.content)
        none == [enc |-> [m |-> m, out |-> <<>>], entry |-> <<>>, upload |-> FALSE,
                 name |-> <<>>, payload |-> NoBlob]
    IN  IF n.err THEN none
        ELSE IF IsDirMode(n.fi.mode)
        THEN [none EXCEPT !.enc = EncoderDir(m, n.path, n.fi),
                          !.entry = <<DirOf(n.path, n.fi)>>]
        ELSE IF IsSymlinkMode(n.fi.mode)
        THEN IF LinkResolves(t, n)
             THEN [none EXCEPT !.enc = EncoderSymlink(m, n.path, TRUE,
                                                      Rel(n.path, LinkTarget(n))),
                               !.entry = <<SymlinkOf(n.path, Rel(n.path, LinkTarget(n)))>>]
             ELSE [none EXCEPT !.enc = EncoderSymlink(m, n.path, FALSE, <<>>)]
        ELSE IF IsRegularMode(n.fi.mode) /\ IsZero(n.fi.size)
        THEN [none EXCEPT !.enc = EncoderFile(m, n.path, n.fi, <<>>, <<>>),
                          !.entry = <<FileOf(n.path, n.fi, <<>>, <<>>)>>]
        ELSE IF IsRegularMode(n.fi.mode)
        THEN [enc |-> EncoderFile(m, n.path, n.fi, FileCompressible(file).mime, digest),
              entry |-> <<FileOf(n.path, n.fi, FileCompressible(file).mime, digest)>>,
              upload |-> TRUE,
              name |-> Hex(digest),
              payload |-> FileNaClEncryptLive(file, TreeFile(later), compress, keys.Data,
                                              nonce)]
        ELSE none

\* What a file that is rewritten during the walk may hold afterwards.
LaterContents(content) == {ContentX, ContentPng} \ {content}

\* acdb.walk for the next path of the tree; with live, a regular file that
\* is rewritten between the digests and the copy.
WalkStep(live) ==
    /\ pc = "walk"
    /\ idx <= Len(tree)
    /\ live => ~tree[idx].err /\ IsRegularMode(tree[idx].fi.mode)
                /\ ~IsZero(tree[idx].fi.size)
    /\ \E later \in (IF live THEN LaterContents(tree[idx].content)
                     ELSE {tree[idx].content}) :
       \E w \in {WalkEntry(me, a.keys, a.compress, tree, tree[idx], later,
                           Nonce(nonceCtr + 1))} :
           /\ me' = w.enc.m
           /\ f' = f \o w.enc.out
           /\ localMd' = IF a.target = LocalTarget THEN <<f \o w.enc.out>> ELSE localMd
           /\ written' = written \o w.entry
           /\ IF w.upload
              THEN /\ \E answer \in Answers(store, DataName, w.name) :
                         /\ store' = UploadJSON(store, DataName, w.name, w.payload,
                                                answer).store
                         /\ uploads' = Append(uploads,
                                UploadRecord(Len(hist), tree[idx].path, DataName, w.name,
                                             w.payload, answer))
                   /\ nonceCtr' = nonceCtr + 1
              ELSE UNCHANGED <<store, uploads, nonceCtr>>
    /\ idx' = idx + 1
    /\ UNCHANGED <<keyFile, pwFile, fs, tree, now, a, md, permList, blob, pc, exit,
                   lookups, prompts, verified, listed, hist>>
    /\ UNCHANGED otherVars

Walk == WalkStep(FALSE)

WalkLive == WalkStep(TRUE)

\* acdb.archive after the walk: with target "-" the manifest is flushed,
\* sealed under the MD key and uploaded under the name of the second.
ArchiveFinish ==
    /\ pc = "walk"
    /\ idx > Len(tree)
    /\ IF a.target = Dash
       THEN \E t \in now..MaxClock :
               \E fl \in {EncoderFlush(me)}, nonce \in {Nonce(nonceCtr + 1)} :
               \E mde \in {Seal(nonce, f \o fl.out, nonce, a.keys.MD)} :
               \E answer \in Answers(store, MetadataName, StampName(t)) :
               \E up \in {UploadJSON(store, MetadataName, StampName(t), mde, answer)} :
                          /\ me' = fl.m
                          /\ f' = f \o fl.out
                          /\ now' = t
                          /\ nonceCtr' = nonceCtr + 1
                          /\ store' = up.store
                          /\ uploads' = Append(uploads,
                                 UploadRecord(Len(hist), <<>>, MetadataName, StampName(t),
                                              mde, answer))
                          /\ exit' = up.err
                          /\ hist' = [hist EXCEPT ![Len(hist)].manifest =
                                         IF up.err = "" THEN StampName(t) ELSE <<>>]
       ELSE /\ exit' = ""
            /\ hist' = [hist EXCEPT ![Len(hist)].manifest = LocalTarget]
            /\ UNCHANGED <<me, f, now, nonceCtr, store, uploads>>
    /\ pc' = "return"
    /\ UNCHANGED <<keyFile, pwFile, localMd, fs, tree, a, idx, md, permList, blob,
                   lookups, prompts, verified, written, listed>>
    /\ UNCHANGED otherVars

\* The return of a run: the deferred a.me.Flush() of archive, the deferred
\* goutil.Zero of the keys in _main, and the exit.
Return ==
    /\ pc = "return"
    /\ \E fl \in {EncoderFlush(me)} :
           IF a.mode = "create"
           THEN /\ me' = fl.m
                /\ f' = f \o fl.out
                /\ localMd' = IF a.target = LocalTarget THEN <<f \o fl.out>> ELSE localMd
           ELSE UNCHANGED <<me, f, localMd>>
    /\ a' = [a EXCEPT !.keys = ZeroBundle]
    /\ hist' = [hist EXCEPT ![Len(hist)].exit = exit, ![Len(hist)].done = TRUE]
    /\ pc' = "idle"
    /\ UNCHANGED <<keyFile, pwFile, fs, tree, store, now, nonceCtr, idx, md, permList,
                   blob, exit, uploads, lookups, prompts, verified, written, listed>>
    /\ UNCHANGED otherVars

\* The names a user may give with -f to extract and list.
Targets == {Dash, LocalTarget} \cup {StampName(t) : t \in 0..MaxClock}

\* _main -x and acdb.list up to the return of online()
StartExtractAt(roots, faults) ==
    /\ pc = "idle"
    /\ Len(hist) < MaxRuns
    /\ \E root \in roots, target \in Targets, perms \in BOOLEAN, new \in Bundles,
          z \in RaceOutcomes, fault \in faults :
          \E o \in {OnlineWith(keyFile, pwFile, store, new, z, fault)},
             rec \in {RunRecord("extract", target, FALSE, perms, fs = {})} :
              IF target = Dash
              THEN /\ a' = [NoRun EXCEPT !.mode = "extract", !.target = target,
                                         !.perms = perms, !.root = root]
                   /\ exit' = "must provide archive metadata file"
                   /\ pc' = "return"
                   /\ blob' = NoBlob
                   /\ verified' = NotVerified
                   /\ hist' = Append(hist, rec)
                   /\ UNCHANGED <<keyFile, store>>
              ELSE /\ a' = [mode |-> "extract", target |-> target, compress |-> FALSE,
                            perms |-> perms, root |-> root, keys |-> o.keys]
                   /\ keyFile' = o.keyFile
                   /\ store' = o.store
                   /\ blob' = o.blob
                   /\ verified' = IF o.checked
                                  THEN [called |-> TRUE, err |-> o.err, source |-> "file"]
                                  ELSE NotVerified
                   /\ exit' = o.err
                   /\ pc' = IF o.next = "done" THEN AfterError("extract", o.err)
                            ELSE o.next
                   /\ hist' = Append(hist, rec)
    /\ me' = NewEncoder(FALSE).m
    /\ f' = <<>>
    /\ idx' = 1
    /\ md' = NoDecoder
    /\ permList' = <<>>
    /\ prompts' = 0
    /\ lookups' = {}
    /\ written' = <<>>
    /\ listed' = <<>>
    /\ UNCHANGED <<pwFile, localMd, fs, tree, now, nonceCtr, uploads>>
    /\ UNCHANGED otherVars

\* _main -x -C r
StartExtract == StartExtractAt({RootR}, {"none"})

\* _main -t: acdb.list does not go online.
StartList ==
    /\ pc = "idle"
    /\ Len(hist) < MaxRuns
    /\ \E target \in Targets :
          /\ a' = [NoRun EXCEPT !.mode = "list", !.target = target]
          /\ exit' = IF target = Dash THEN "must provide archive metadata file" ELSE ""
          /\ pc' = IF target = Dash THEN "return" ELSE "open"
          /\ hist' = Append(hist, RunRecord("list", target, FALSE, FALSE, fs = {}))
    /\ me' = NewEncoder(FALSE).m
    /\ f' = <<>>
    /\ idx' = 1
    /\ md' = NoDecoder
    /\ permList' = <<>>
    /\ blob' = NoBlob
    /\ verified' = NotVerified
    /\ prompts' = 0
    /\ lookups' = {}
    /\ written' = <<>>
    /\ listed' = <<>>
    /\ UNCHANGED <<keyFile, pwFile, localMd, fs, tree, store, now, nonceCtr, uploads>>
    /\ UNCHANGED otherVars

LookupRecord(entry, path) == [entry |-> entry, path |-> path]

MetadataPath(name) == MetadataName \o Slash \o name

\* The path of a payload named by the raw digest; C3 does not hold of it.
DataPathRaw(id) == Slash \o DataName \o Slash \o id

DataPath(id) == Slash \o DataName \o Slash \o Hex(id)

\* acdb.list from os.Open(a.target) to metadata.NewDecoder: the local
\* file, or the object of that name in metadata/, opened with the MD key.
\* Only a run that went online has a client.
\* acdb.downloadMD and secretbox.Open on what it returns
OpenedManifest(o) ==
    IF ~o.ok THEN [err |-> "could not decrypt metadata", bytes |-> <<>>]
    ELSE [err |-> "", bytes |-> o.msg]

FoundManifest(look, key) ==
    IF look.err # "" THEN [err |-> "remote metadata not found", bytes |-> <<>>]
    ELSE IF BlobLen(look.asset.payload) < NonceSize THEN [err |-> PanicSlice, bytes |-> <<>>]
    ELSE OpenedManifest(SecretboxOpen(BlobFrom(look.asset.payload, NonceSize),
                                      SubSeq(look.asset.payload.pre, 1, NonceSize), key))

RemoteManifest(st, mode, name, key) ==
    IF mode = "list" THEN [err |-> PanicNil, bytes |-> <<>>]
    ELSE FoundManifest(GetMetadataFS(st, MetadataPath(name)), key)

OpenManifest ==
    /\ pc = "open"
    /\ \E local \in {a.target = LocalTarget /\ localMd # <<>>} :
       \E m \in {IF local THEN [err |-> "", bytes |-> localMd[1]]
                 ELSE RemoteManifest(store, a.mode, a.target, a.keys.MD)} :
       \E dec \in {NewDecoder(m.bytes)} :
           /\ lookups' = IF local \/ a.mode = "list" THEN lookups
                         ELSE lookups \cup {LookupRecord(<<>>, MetadataPath(a.target))}
           /\ IF m.err # "" THEN exit' = m.err /\ pc' = "return" /\ md' = md
              ELSE IF dec.err # "" THEN exit' = dec.err /\ pc' = "return" /\ md' = md
              ELSE exit' = "" /\ pc' = "list" /\ md' = dec.d
    /\ UNCHANGED <<keyFile, pwFile, localMd, fs, tree, store, now, nonceCtr, a, me, f, idx,
                   permList, blob, uploads, prompts, verified, written, listed, hist>>
    /\ UNCHANGED otherVars

\* acdb.downloadPayload after NaClDecrypt
SavePayload(files, dec, fullpath) ==
    IF dec.err # "" THEN [err |-> dec.err, fs |-> files]
    ELSE WriteAndRename(files, Root, dec.body[1], PathJoin(Root, fullpath))

FoundPayload(look, files, keys, fullpath) ==
    IF look.err # "" THEN [err |-> "remote object not found", fs |-> files]
    ELSE SavePayload(files, NaClDecrypt(look.asset.payload, keys.Data), fullpath)

\* acdb.downloadPayload
DownloadPayload(st, files, keys, fullpath, id) ==
    FoundPayload(GetMetadataFS(st, DataPath(id)), files, keys, fullpath)

\* The permission bits os.Chmod sets.
PermBits(mode) == <<0, 0, mode[3] % 2, mode[4]>>

\* acdb.extract after the file is in place: Chmod, Chtimes, Chown with -p.
WithPerms(ch, asked) == [fatal |-> TRUE, err |-> ch.err, fs |-> ch.fs, asked |-> asked]

Extracted(got, perms, e) ==
    IF got.err # ""
    THEN [fatal |-> IsZero(e.Size), err |-> got.err, fs |-> got.fs, asked |-> ~IsZero(e.Size)]
    ELSE IF perms
    THEN WithPerms(Chmod(got.fs, PathJoin(Root, e.Name), PermBits(e.Mode)), ~IsZero(e.Size))
    ELSE [fatal |-> FALSE, err |-> "", fs |-> got.fs, asked |-> ~IsZero(e.Size)]

\* An extract that asks data/ for every file; C10 does not hold of it.
ExtractIntoDownload(mk, st, keys, perms, e) ==
    IF mk.err # "" THEN [fatal |-> TRUE, err |-> mk.err, fs |-> mk.fs, asked |-> FALSE]
    ELSE [fatal |-> FALSE,
          err |-> DownloadPayload(st, mk.fs, keys, e.Name, e.Digest).err,
          fs |-> DownloadPayload(st, mk.fs, keys, e.Name, e.Digest).fs,
          asked |-> TRUE]

ExtractInto(mk, st, keys, perms, e) ==
    IF mk.err # "" THEN [fatal |-> TRUE, err |-> mk.err, fs |-> mk.fs, asked |-> FALSE]
    ELSE IF IsZero(e.Size) THEN Extracted(OsCreate(mk.fs, PathJoin(Root, e.Name)), perms, e)
    ELSE Extracted(DownloadPayload(st, mk.fs, keys, e.Name, e.Digest), perms, e)

\* acdb.extract of a File entry: fatal, the error, the files, and whether
\* data/ was asked for the payload.
Extract(st, files, keys, perms, e) ==
    ExtractInto(MkdirAll(files, PathJoin(Root, PathDir(e.Name)), Mode755), st, keys, perms, e)

\* A list the directories are appended to; C18 does not hold of it.
PushBack(list, e) == list \o <<e>>

\* What the loop of acdb.list does with one entry in extract mode.
Fatal(r) == [fatal |-> TRUE, err |-> r.err, fs |-> r.fs, asked |-> FALSE]

ListEntry(st, files, keys, perms, e) ==
    IF e.type = "dir" THEN Fatal(MkdirAll(files, PathJoin(Root, e.Name), Mode755))
    ELSE IF e.type = "symlink"
    THEN Fatal(OsSymlink(files, PathJoin(Root, e.Link), PathJoin(Root, e.Name)))
    ELSE Extract(st, files, keys, perms, e)

\* a.permList.PushFront(e)
PushFront(list, e) == <<e>> \o list

\* Nothing is extracted.
NoEntry(files) == [fatal |-> FALSE, err |-> "", fs |-> files, asked |-> FALSE]

\* One turn of the loop of acdb.list: a.md.Next() and the entry it returns.
ListNext ==
    /\ pc = "list"
    /\ \E n \in {Next(md)} :
       \E r \in {IF n.err = "" /\ a.mode = "extract"
                 THEN ListEntry(store, fs, a.keys, a.perms, n.val)
                 ELSE NoEntry(fs)} :
           /\ md' = n.d
           /\ listed' = IF n.err = "" THEN Append(listed, n.val) ELSE listed
           /\ IF n.err = "EOF"
              THEN pc' = "perms" /\ UNCHANGED <<exit, fs, permList, lookups>>
              ELSE IF n.err # ""
              THEN pc' = "return" /\ exit' = n.err /\ UNCHANGED <<fs, permList, lookups>>
              ELSE IF a.mode # "extract"
              THEN UNCHANGED <<pc, exit, fs, permList, lookups>>
              ELSE /\ fs' = r.fs
                   /\ lookups' = IF r.asked
                                 THEN lookups \cup {LookupRecord(n.val.Name,
                                                                 DataPath(n.val.Digest))}
                                 ELSE lookups
                   /\ permList' = IF n.val.type = "dir" /\ r.err = "" /\ a.perms
                                  THEN PushFront(permList, n.val)
                                  ELSE permList
                   /\ pc' = IF r.fatal /\ r.err # "" THEN "return" ELSE pc
                   /\ exit' = IF r.fatal /\ r.err # "" THEN r.err ELSE exit
    /\ UNCHANGED <<keyFile, pwFile, localMd, tree, store, now, nonceCtr, a, me, f, idx,
                   blob, uploads, prompts, verified, written, hist>>
    /\ UNCHANGED otherVars

RECURSIVE ApplyPerms(_, _)
ApplyPerms(files, dirs) ==
    IF dirs = <<>> THEN [err |-> "", fs |-> files]
    ELSE LET c == Chmod(files, PathJoin(Root, Head(dirs).Name), PermBits(Head(dirs).Mode))
         IN  IF c.err # "" THEN c ELSE ApplyPerms(c.fs, Tail(dirs))

\* The end of acdb.list: the permissions of the directories in permList.
SetPermissions ==
    /\ pc = "perms"
    /\ \E r \in {ApplyPerms(fs, permList)} : fs' = r.fs /\ exit' = r.err
    /\ pc' = "return"
    /\ UNCHANGED <<keyFile, pwFile, localMd, tree, store, now, nonceCtr, a, me, f, idx, md,
                   permList, blob, uploads, lookups, prompts, verified, written, listed, hist>>
    /\ UNCHANGED otherVars

RunNext ==
    \/ StartCreate
    \/ Walk
    \/ ArchiveFinish
    \/ StartExtract
    \/ StartList
    \/ OpenManifest
    \/ ListNext
    \/ SetPermissions
    \/ Return

LifeNext == RunNext \/ NewPassword \/ EnterPassword

\* The secrets on the drive after a first run bound `keys` with `password`.
BoundSecrets(keys, password) ==
    Object(MetadataName, SecretsName, KeysEncrypt(keys, password, Key(1), Nonce(99), 0))

BoundStore(keys, password) ==
    {Folder(DataName), Folder(MetadataName), BoundSecrets(keys, password)}

\* A machine whose keys are bound to the drive and whose password is saved.
Init ==
    /\ EnvIdle /\ KeysIdle /\ ManIdle /\ ProgIdle
    /\ keyFile = <<Bundle(11)>>
    /\ pwFile = <<Hunter2>>
    /\ tree \in Trees
    /\ store = BoundStore(Bundle(11), Hunter2)

Spec == Init /\ [][RunNext]_vars

\* Any machine against any drive: with or without keys, with or without a
\* password file, the drive empty or bound to these or to other keys.
LifeInit ==
    /\ EnvIdle /\ KeysIdle /\ ManIdle /\ ProgIdle
    /\ keyFile \in {<<>>, <<Bundle(11)>>}
    /\ pwFile \in {<<>>, <<Hunter2>>, <<HunterCap>>}
    /\ tree = <<NodeDir(PathD), NodeFile(PathDA, ContentX)>>
    /\ store \in {{}, BoundStore(Bundle(11), Hunter2), BoundStore(Bundle(21), Hunter2)}

SpecLife == LifeInit /\ [][LifeNext]_vars


(***************************************************************************)
(* Create runs: what the walk leaves in the manifest and on the drive      *)
(***************************************************************************)

\* The uploads into data/ so far, and the first of them for its name.
DataUploads == {i \in 1..Len(uploads) : uploads[i].parent = DataName}

FirstAttempt(i) == \A j \in DataUploads : j < i => uploads[j].name # uploads[i].name

DataObjects == {x \in store : x.parent = DataName}

DataObjectsNamed(name) == {x \in DataObjects : x.name = name}

\* The paths of the tree the walk of the last create run has visited.
Walked == IF a.mode = "create" /\ pc \in {"walk", "return", "idle"} THEN 1..(idx - 1) ELSE {}

RegularFile(k) == ~tree[k].err /\ IsRegularMode(tree[k].fi.mode)

EmptyFile(k) == RegularFile(k) /\ IsZero(tree[k].fi.size)

NonEmptyFile(k) == RegularFile(k) /\ ~IsZero(tree[k].fi.size)

\* The fingerprint of the content of path k under the local dedup key.
Fingerprint(k) == HmacSha256(keyFile[1].Dedup, tree[k].content)

Entries == {written[i] : i \in 1..Len(written)}

\* The drive answers no upload into data/ with an error other than 409.
DataUploadsAnswered == \A i \in DataUploads : uploads[i].answer \in {"Created", "Conflict"}

\* One object per content: the first attempt for a name is answered 201,
\* every later one 409, the object is the one the first attempt stored, and
\* every visited non-empty file has its File entry with its fingerprint.
DedupHolds ==
    /\ \A i \in DataUploads :
          /\ uploads[i].answer = IF FirstAttempt(i) THEN "Created" ELSE "Conflict"
          /\ \E j \in DataUploads :
                /\ FirstAttempt(j)
                /\ uploads[j].name = uploads[i].name
                /\ DataObjectsNamed(uploads[i].name)
                       = {Object(DataName, uploads[j].name, uploads[j].payload)}
    /\ \A k \in Walked :
          NonEmptyFile(k) =>
              /\ \E e \in Entries :
                    e.type = "file" /\ e.Name = tree[k].path /\ e.Digest = Fingerprint(k)
              /\ Cardinality(DataObjectsNamed(Hex(Fingerprint(k)))) = 1
    /\ (a.mode = "create" /\ pc = "return" /\ idx > Len(tree)) =>
          Cardinality(DataObjects)
              = Cardinality({tree[k].content : k \in {n \in 1..Len(tree) : NonEmptyFile(n)}})

C2_EntriesNameObjects ==
    (a.mode = "create" /\ pc = "return") =>
        \A e \in Entries :
            (e.type = "file" /\ e.Digest # Zeros(DigestSize)) =>
                \E x \in DataObjects : x.name = Hex(e.Digest) /\ x.kind = "FILE"

(***************************************************************************)
(* A create run and then an extract of its manifest                        *)
(***************************************************************************)

\* The second run has extracted the manifest the first run created.
ExtractedAfterCreate ==
    /\ Len(hist) = 2
    /\ hist[1].mode = "create" /\ hist[1].done /\ hist[1].exit = ""
    /\ hist[2].mode = "extract" /\ hist[2].done
    /\ hist[2].target = hist[1].manifest

\* The tree holds directories and regular files only.
PlainTree ==
    \A k \in 1..Len(tree) :
        ~tree[k].err /\ (IsDirMode(tree[k].fi.mode) \/ IsRegularMode(tree[k].fi.mode))

FileAt(k) ==
    {n \in fs : n.path = PathJoin(Root, tree[k].path) /\ n.kind = "file"}

C10_EmptyFiles ==
    /\ \A k \in Walked :
          EmptyFile(k) =>
              /\ Cardinality({i \in 1..Len(written) : written[i].Name = tree[k].path}) = 1
              /\ \A e \in Entries :
                    e.Name = tree[k].path =>
                        e.type = "file" /\ e.Digest = Zeros(DigestSize)
              /\ \A i \in 1..Len(uploads) :
                    uploads[i].run = Len(hist) => uploads[i].path # tree[k].path
    /\ (ExtractedAfterCreate /\ hist[2].exit = "") =>
          \A k \in 1..Len(tree) :
              EmptyFile(k) =>
                  /\ \E n \in FileAt(k) : n.content = <<>>
                  /\ \A l \in lookups : l.entry # tree[k].path

\* The empty file d/e was archived and is back under the root.
C10_Witness ==
    /\ ExtractedAfterCreate /\ hist[2].exit = ""
    /\ \E k \in 1..Len(tree) :
          /\ EmptyFile(k)
          /\ \E n \in FileAt(k) : n.content = <<>>
    /\ \E l \in lookups : l.entry # <<>>

(***************************************************************************)
(* The key lifecycle                                                       *)
(***************************************************************************)

KeyMismatch == "remote secrets not identical to local secrets"

\* How the run under way, or the last one, ends.
ExitOfRun == IF pc = "idle" THEN hist[Len(hist)].exit ELSE exit

\* C8: once verifySecrets has found the remote bundle to differ from the
\* local keys, the run is ending with the key-mismatch error, whether the
\* password came from the password file or from the prompt; it does not go
\* back to the prompt.
C8_MismatchEndsRun ==
    (verified.called /\ verified.err = KeyMismatch) =>
        pc \in {"return", "idle"} /\ ExitOfRun = KeyMismatch

\* This run found no secrets on the drive and online() returned nil after
\* uploading them.
BoundInThisRun ==
    /\ pc \in {"walk", "open", "list", "perms"}
    /\ \E i \in 1..Len(uploads) :
          /\ uploads[i].run = Len(hist)
          /\ uploads[i].parent = MetadataName /\ uploads[i].name = SecretsName
          /\ uploads[i].answer = "Created"

\* C9: when a run found no metadata/secrets, prompted, wrapped and uploaded,
\* and online() reported success, metadata/secrets is on the drive and
\* unwraps with the password of the prompt to the local keys.
C9_UploadedSecretsUnwrap ==
    BoundInThisRun =>
        /\ GetMetadataFS(store, SecretsPath).err = ""
        /\ KeysDecrypt(pwFile[1], GetMetadataFS(store, SecretsPath).asset.payload, 0)
               = [err |-> "", keys |-> <<keyFile[1]>>]

\* The uploads of a manifest that met an object of the same name.
ManifestConflicts ==
    {i \in 1..Len(uploads) :
        uploads[i].parent = MetadataName /\ uploads[i].answer = "Conflict"}

ManifestObjects(name) == {x \in store : x.parent = MetadataName /\ x.name = name}

\* C12: a create run whose manifest upload meets an object of the same name
\* under metadata/ ends with an error and without "backup complete", and
\* the object stays the manifest an earlier run stored there.
C12_ManifestConflict ==
    \A i \in ManifestConflicts :
        /\ hist[uploads[i].run].manifest = <<>>
        /\ (uploads[i].run = Len(hist) /\ pc = "return") => exit # ""
        /\ hist[uploads[i].run].done => hist[uploads[i].run].exit # ""
        /\ \E j \in 1..(i - 1) :
              /\ uploads[j].parent = MetadataName
              /\ uploads[j].name = uploads[i].name
              /\ uploads[j].answer = "Created"
              /\ uploads[j].payload # uploads[i].payload
              /\ ManifestObjects(uploads[i].name)
                     = {Object(MetadataName, uploads[j].name, uploads[j].payload)}

C12_Witness ==
    \E i \in ManifestConflicts :
        /\ hist[uploads[i].run].done
        /\ hist[uploads[i].run].mode = "create"
        /\ hist[uploads[i].run].exit = "CombinedError"
        /\ ManifestObjects(uploads[i].name) # {}

\* Every entry Next returns from a decoder, and the error that ends them.
RECURSIVE ReadAll(_, _), ReadAllFrom(_, _)
ReadAllFrom(n, acc) ==
    IF n.err # "" THEN [entries |-> acc, err |-> n.err]
    ELSE ReadAll(n.d, Append(acc, n.val))

ReadAll(d, acc) == ReadAllFrom(Next(d), acc)

ManifestFrom(dec) ==
    IF dec.err # "" THEN [entries |-> <<>>, err |-> dec.err] ELSE ReadAll(dec.d, <<>>)

\* The entries of a manifest file.
Manifest(bytes) == ManifestFrom(NewDecoder(bytes))

Names(entries) == [i \in 1..Len(entries) |-> entries[i].Name]

Paths(nodes) == [i \in 1..Len(nodes) |-> nodes[i].path]

\* The nodes acdb.walk writes an entry for: directories, links that
\* resolve, regular files.
HasEntry(n) ==
    /\ ~n.err
    /\ \/ IsDirMode(n.fi.mode)
       \/ IsSymlinkMode(n.fi.mode) /\ LinkResolves(tree, n)
       \/ ~IsDirMode(n.fi.mode) /\ ~IsSymlinkMode(n.fi.mode) /\ IsRegularMode(n.fi.mode)

\* The paths the walk visited and wrote an entry for, in order; what the
\* uploads were answered plays no part in it.
EntriesDue == Paths(SelectSeq(tree, HasEntry))

\* Run r is a create run that walked the tree and is over.
Created(r) ==
    /\ r \in 1..Len(hist)
    /\ hist[r].mode = "create"
    /\ hist[r].done
    /\ hist[r].manifest # <<>>

\* The last run is over and was a create run that walked the tree; f is
\* its manifest.
CreateOver == pc = "idle" /\ Created(Len(hist))

\* The first run created a manifest and the second listed or extracted it
\* to its end.
ListedAfterCreate ==
    /\ pc = "idle"
    /\ Len(hist) = 2
    /\ Created(1)
    /\ hist[2].mode \in {"list", "extract"}
    /\ hist[2].target = hist[1].manifest
    /\ hist[2].exit = ""

\* C13: the entries of the manifest are the nodes the walk visited and did
\* not skip, in the order of the walk, whatever the uploads were answered;
\* and list and extract take the entries in that order.
C13_ManifestOrder ==
    /\ CreateOver =>
          /\ Manifest(f).err = "EOF"
          /\ Names(Manifest(f).entries) = EntriesDue
    /\ ListedAfterCreate => Names(listed) = EntriesDue

\* What does hold: the same for the trees whose links resolve.
LinksResolve ==
    \A k \in 1..Len(tree) :
        (~tree[k].err /\ IsSymlinkMode(tree[k].fi.mode)) => LinkResolves(tree, tree[k])

ManifestInWalkOrder ==
    LinksResolve =>
        /\ CreateOver =>
              /\ Manifest(f).err = "EOF"
              /\ Names(Manifest(f).entries) = EntriesDue
        /\ ListedAfterCreate => Names(listed) = EntriesDue

\* The walk of run r printed "skipping" for node n after an upload that was
\* answered with an error other than a Conflict.
UploadFailed(r, n) ==
    \E i \in 1..Len(uploads) :
        /\ uploads[i].run = r
        /\ uploads[i].path = n.path
        /\ uploads[i].parent = DataName
        /\ uploads[i].answer \notin {"Created", "Conflict"}

\* The paths of the nodes the walk of run r processed without an error, in
\* order.
ProcessedBy(r) ==
    LET Processed(n) == HasEntry(n) /\ ~UploadFailed(r, n)
    IN  Paths(SelectSeq(tree, Processed))

\* C15: a node whose processing fails during the walk, other than by an
\* upload Conflict, leaves no bytes in the manifest, neither an entry nor a
\* tag: the manifest decodes to exactly the nodes that were processed
\* without an error.
C15_NoBytesForFailedNodes ==
    CreateOver =>
        /\ Manifest(f).err = "EOF"
        /\ Names(Manifest(f).entries) = ProcessedBy(Len(hist))

\* The two ways it fails: the tag of a link that does not resolve stays in
\* the manifest and the decoder stops at it; the entry of a file whose
\* upload failed stays in the manifest.
DanglingTag ==
    /\ CreateOver
    /\ ~LinksResolve
    /\ Manifest(f).err = "ErrTypeSymlink"

EntryOfFailedUpload ==
    /\ CreateOver
    /\ LinksResolve
    /\ Manifest(f).err = "EOF"
    /\ \E k \in 1..Len(tree) :
          /\ UploadFailed(Len(hist), tree[k])
          /\ \E i \in 1..Len(Manifest(f).entries) :
                Manifest(f).entries[i].Name = tree[k].path

\* Directory p is above path q.
IsAncestor(p, q) ==
    /\ Len(p) < Len(q)
    /\ SubSeq(q, 1, Len(p)) = p
    /\ q[Len(p) + 1] = 47

\* An extract with -p into an empty root is under way or just over.
ExtractWithPerms ==
    /\ a.mode = "extract"
    /\ a.perms
    /\ hist[Len(hist)].fresh

DirsUnderRoot == {n \in fs : n.kind = "dir"}

\* The directory entries the loop has taken from the manifest.
DirsListed == {i \in 1..Len(listed) : listed[i].type = "dir"}

\* C18: with -p, the attributes of the directories are applied only after
\* every entry of the manifest has been processed (until then each
\* directory is as MkdirAll made it), in an order that takes a directory
\* after the directories below it, and then every directory has them.
C18_DirectoryPermissionsLast ==
    ExtractWithPerms =>
        /\ pc = "list" => \A n \in DirsUnderRoot : n.mode = Mode755
        /\ pc = "perms" =>
              /\ md.err # ""
              /\ \A n \in DirsUnderRoot : n.mode = Mode755
              /\ Len(permList) = Cardinality(DirsListed)
              /\ \A i \in 1..Len(permList) : \A j \in (i + 1)..Len(permList) :
                    ~IsAncestor(permList[i].Name, permList[j].Name)
        /\ (pc = "return" /\ exit = "") =>
              \A i \in DirsListed :
                  \E n \in DirsUnderRoot :
                      /\ n.path = PathJoin(Root, listed[i].Name)
                      /\ n.mode = PermBits(listed[i].Mode)

C18_Witness ==
    /\ ExtractWithPerms
    /\ pc = "return" /\ exit = ""
    /\ Len(permList) = 2
    /\ IsAncestor(permList[2].Name, permList[1].Name)
    /\ \A n \in DirsUnderRoot : n.path # Root => n.mode = PermBits(ModeDir700)
    /\ Cardinality(DirsUnderRoot) = 3

\* What follows the 8-byte header in the sink, read as a gzip stream.
SinkMember == GzipNewReader(SubSeq(mSink, Len(NewEncoder(TRUE).out) + 1, Len(mSink)))

\* A compressed manifest has been written and flushed for the last time.
CompressedAndFlushed == mPc \in {"open", "read", "done"} /\ mEnc.compress

\* C19: after the last Flush of a compressed manifest the sink holds the
\* uncompressed header and then one complete gzip member, its final block
\* and its footer included, that inflates to every record written.
C19_CompleteGzipMember ==
    CompressedAndFlushed =>
        /\ SubSeq(mSink, 1, Len(NewEncoder(TRUE).out)) = NewEncoder(TRUE).out
        /\ SinkMember.err = ""
        /\ SinkMember.end = "EOF"
        /\ Len(SinkMember.data) = RecordsLen(Len(mWritten))

\* What the sink does hold: the header and a gzip stream with every record
\* that stops after the sync marker of Flush, without final block or footer.
FlushedWithoutFooter ==
    CompressedAndFlushed =>
        /\ SubSeq(mSink, 1, Len(NewEncoder(TRUE).out)) = NewEncoder(TRUE).out
        /\ SinkMember.err = ""
        /\ SinkMember.end = "ErrUnexpectedEOF"
        /\ Len(SinkMember.data) = RecordsLen(Len(mWritten))

(***************************************************************************)
(* Runs in a less friendly world: files that are rewritten while they are  *)
(* backed up, objects of the drive and local manifests that are damaged    *)
(* between two runs, extraction roots other than "r"                       *)
(***************************************************************************)

\* _main -x -C root
StartExtractAnywhere == StartExtractAt(Roots, {"none"})

\* A sealed payload whose bytes were altered: it opens under no key.
Corrupted(b) == [pre |-> b.pre, box |-> <<[b.box[1] EXCEPT !.key = <<>>]>>]

\* Between the create run and the next run an object under data/ is lost
\* or altered.
DamageObject ==
    /\ pc = "idle"
    /\ Len(hist) = 1
    /\ \E x \in {o \in store : o.parent = DataName /\ o.payload.box # <<>>
                               /\ o.payload.box[1].key # <<>>} :
          store' \in {store \ {x},
                      (store \ {x}) \cup {Object(x.parent, x.name, Corrupted(x.payload))}}
    /\ UNCHANGED <<keyFile, pwFile, localMd, fs, tree, now, nonceCtr, progVars, logVars>>
    /\ UNCHANGED otherVars

\* The offsets of an uncompressed manifest at which a tag begins: after
\* the header and after the first record.
TagOffsetsFrom(dec) ==
    IF dec.err # "" THEN {}
    ELSE {dec.d.off} \cup (IF Next(dec.d).err = "" THEN {Next(dec.d).d.off} ELSE {})

TagOffsets(bytes) == TagOffsetsFrom(NewDecoder(bytes))

InsertAt(bytes, off, p) ==
    SubSeq(bytes, 1, off) \o p \o SubSeq(bytes, off + 1, Len(bytes))

\* Between the create run and the next run the local manifest m, written
\* without -z, gets a tag that is no entry type where a record begins.
DamageManifest ==
    /\ pc = "idle"
    /\ Len(hist) = 1
    /\ localMd # <<>>
    /\ ~hist[1].compress
    /\ Manifest(localMd[1]).err = "EOF"
    /\ \E off \in TagOffsets(localMd[1]) :
          localMd' = <<InsertAt(localMd[1], off, TypeUnknown)>>
    /\ UNCHANGED <<keyFile, pwFile, fs, tree, store, now, nonceCtr, progVars, logVars>>
    /\ UNCHANGED otherVars

AdverseNext ==
    \/ StartCreate
    \/ Walk
    \/ WalkLive
    \/ ArchiveFinish
    \/ DamageObject
    \/ DamageManifest
    \/ StartExtractAnywhere
    \/ StartList
    \/ OpenManifest
    \/ ListNext
    \/ SetPermissions
    \/ Return

\* The trees of these runs: two files of different content, and a link
\* d/b -> a beside the file d/a.
LinkTree == <<NodeDir(PathD), NodeFile(PathDA, ContentX), NodeSymlink(PathDB, <<97>>)>>

AdverseTrees ==
    {<<NodeDir(PathD), NodeFile(PathDA, ContentX), NodeFile(PathDB, ContentPng)>>, LinkTree}

AdverseInit ==
    /\ EnvIdle /\ KeysIdle /\ ManIdle /\ ProgIdle
    /\ keyFile = <<Bundle(11)>>
    /\ pwFile = <<Hunter2>>
    /\ tree \in AdverseTrees
    /\ store = BoundStore(Bundle(11), Hunter2)

SpecAdverse == AdverseInit /\ [][AdverseNext]_vars

\* Where the link n of the extracted files leads: its text, taken from the
\* directory that holds the link.
LeadsTo(n) == PathJoin(PathDir(n.path), n.link)

\* The tree d/, d/a, d/b -> a was backed up without an error and its
\* manifest extracted without an error into an empty root.
LinkTreeExtracted ==
    /\ tree = LinkTree
    /\ pc = "idle"
    /\ Len(hist) = 2
    /\ Created(1) /\ hist[1].exit = ""
    /\ hist[2].mode = "extract" /\ hist[2].target = hist[1].manifest
    /\ hist[2].fresh /\ hist[2].done /\ hist[2].exit = ""

\* C14: after create and extract of the tree d/, d/a, d/b -> a into any
\* fresh root, root/d/b is a symbolic link that leads to root/d/a.
C14_LinkLeadsToFile ==
    LinkTreeExtracted =>
        \E n \in NodesAt(fs, PathJoin(Root, PathDB)) :
            /\ n.kind = "symlink"
            /\ LeadsTo(n) = PathJoin(Root, PathDA)

\* What does hold: the link is there in every root, and it leads to
\* root/d/a exactly when the root is one relative element.
LinkAsExtracted ==
    LinkTreeExtracted =>
        \E n \in NodesAt(fs, PathJoin(Root, PathDB)) :
            /\ n.kind = "symlink"
            /\ n.link = PathJoin(Root, <<46, 46, 47, 97>>)
            /\ (LeadsTo(n) = PathJoin(Root, PathDA)) <=> (Root = RootR)

\* What acdb.downloadPayload gets for entry e: the object under data/ and
\* the header and body NaClDecrypt returns for it under the data key.
ObjectOf(e) == GetMetadataFS(store, DataPath(e.Digest))

Payload(look) == NaClDecrypt(look.asset.payload, keyFile[1].Data)

\* The body is not what the header of the envelope says.
HeaderMismatch(dec) ==
    /\ dec.err = ""
    /\ \/ Sha256(dec.body[1]) # dec.header[1].Digest
       \/ U64(Len(dec.body[1])) # dec.header[1].Size

Mismatched(e) ==
    /\ e.type = "file"
    /\ ~IsZero(e.Size)
    /\ ObjectOf(e).err = ""
    /\ HeaderMismatch(Payload(ObjectOf(e)))

\* An extract into an empty root is at work on the entries of a manifest.
Extracting ==
    /\ a.mode = "extract"
    /\ hist[Len(hist)].fresh
    /\ pc \in {"list", "perms", "return"}

\* C16: extract checks the decrypted body against the digest and the size
\* of the envelope header before the rename; a body that does not match is
\* not installed under the root and the run reports an error.
C16_BodyCheckedAgainstHeader ==
    Extracting =>
        \A i \in 1..Len(listed) :
            Mismatched(listed[i]) =>
                /\ NodesAt(fs, PathJoin(Root, listed[i].Name)) = {}
                /\ pc = "return" => exit # ""

\* What happens: the body is installed and the run ends without an error.
MismatchInstalled ==
    /\ Extracting
    /\ pc = "return" /\ exit = ""
    /\ \E i \in 1..Len(listed) :
          /\ Mismatched(listed[i])
          /\ \E n \in NodesAt(fs, PathJoin(Root, listed[i].Name)) :
                n.content = Payload(ObjectOf(listed[i])).body[1]

\* The payload of entry e is on the drive and does not decrypt.
DecryptFails(e) ==
    /\ e.type = "file"
    /\ ~IsZero(e.Size)
    /\ ObjectOf(e).err = ""
    /\ Payload(ObjectOf(e)).err # ""

\* The loop of acdb.list was left with an error while it was at work on the
\* last entry it took from the manifest.
AbortedAtLast ==
    /\ pc = "return"
    /\ exit # ""
    /\ md.err = ""
    /\ listed # <<>>

\* C17: during extract a payload that does not decrypt, or is corrupt, ends
\* the run with an error at that entry, and no other failure of one file
\* entry does: after it the loop goes on with the next entry.
C17_OnlyCorruptionAborts ==
    Extracting =>
        /\ \A i \in 1..Len(listed) :
              DecryptFails(listed[i]) => i = Len(listed) /\ AbortedAtLast
        /\ (AbortedAtLast /\ listed[Len(listed)].type = "file") =>
              \/ DecryptFails(listed[Len(listed)])
              \/ Mismatched(listed[Len(listed)])

\* What happens: the entry whose payload does not decrypt is passed over,
\* the entries after it are extracted and the run ends without an error.
DecryptFailurePassedOver ==
    /\ Extracting
    /\ pc = "return" /\ exit = ""
    /\ Len(listed) = 3
    /\ DecryptFails(listed[2])
    /\ NodesAt(fs, PathJoin(Root, listed[2].Name)) = {}
    /\ NodesAt(fs, PathJoin(Root, listed[3].Name)) # {}

\* The decoder of the run stands before a whole tag that is no entry type.
AtUnknownTag ==
    /\ pc = "list"
    /\ md.err = ""
    /\ Len(md.data) - md.off >= Len(TypeDir)
    /\ SubSeq(md.data, md.off + 1, md.off + Len(TypeDir))
           \notin {TypeDir, TypeSymlink, TypeFile}

\* C20: when Next reads a whole tag that is none of dir, syml, file it
\* returns the unknown-type error, and list and extract end there with that
\* error: nothing after the tag is read, no entry is taken, and neither the
\* files nor the drive are touched.
C20_UnknownTagStopsRun ==
    [][AtUnknownTag =>
          /\ pc' = "return"
          /\ exit' = "ErrType"
          /\ md'.off = md.off + Len(TypeDir)
          /\ listed' = listed
          /\ UNCHANGED <<fs, store, lookups, permList>>]_vars

\* An extract that stopped at such a tag with entries before it and bytes
\* after it.
C20_Witness ==
    /\ a.mode = "extract"
    /\ pc = "return"
    /\ exit = "ErrType"
    /\ md.off < Len(md.data)
    /\ Len(listed) = 1
    /\ SubSeq(md.data, md.off - Len(TypeDir) + 1, md.off) = TypeUnknown

(***************************************************************************)
(* The key lifecycle across runs                                           *)
(***************************************************************************)

\* C21: across any sequence of runs the key file is written only when it
\* does not exist: once it holds a bundle, no step of any run changes it.
C21_KeyFileWrittenOnce == [][keyFile # <<>> => keyFile' = keyFile]_vars

\* A first run generated the bundle and a second run went online with it.
C21_Witness ==
    /\ Len(hist) = 2
    /\ hist[1].mode = "create" /\ hist[1].done
    /\ a.mode \in {"create", "extract"} /\ a.target # Dash
    /\ keyFile = <<Bundle(21)>>
    /\ a.keys = Bundle(21)

(***************************************************************************)
(* Secrets in memory                                                       *)
(***************************************************************************)

\* C22: every derived key and every password buffer is zeroed by the time
\* the function that obtained it returns, on success and on every error
\* path, the passwords of failed attempts included.
C22_SecretsZeroedAtReturn == \A b \in kLeft : IsZero(b.bytes)

\* What the code does clear: the retyped password of the prompt that
\* returns, and the password of uploadSecrets and of a downloadSecrets
\* that verified it.
DeferredZeroing ==
    /\ kPc \in {"encrypt", "seal", "decrypt", "open", "done"} =>
           Buffer("p2", Zeros(Len(kPass))) \in kLeft
    /\ kPc \in {"decrypt", "open", "done"} => Buffer("p", Zeros(Len(kPass))) \in kLeft
    /\ (kPc = "done" /\ kOut.err = "") => Buffer("p", Zeros(Len(kPass2))) \in kLeft

\* C23: the zeroing goroutine never takes effect before the key is used:
\* secretbox.Seal in Keys.Encrypt and secretbox.Open in KeysDecrypt read
\* the key scrypt derived from the password and the salt, never a key that
\* is partly or wholly zero.
C23_KeyIntactWhenUsed ==
    [][/\ (kPc = "seal" /\ kPc' = "decrypt") => kKey = Scrypt(kPass, kSalt)
       /\ (kPc = "open" /\ kPc' = "done") =>
              kKey = Scrypt(kPass2, SubSeq(kBlob.pre, 1, KeySize))]_vars

\* When the goroutine has not run, the key that is used is the derived one.
KeyIntactUnlessZeroed ==
    [][/\ (kPc = "seal" /\ kPc' = "decrypt" /\ kZ = 0) => kKey = Scrypt(kPass, kSalt)
       /\ (kPc = "open" /\ kPc' = "done" /\ kZ = 0) =>
              kKey = Scrypt(kPass2, SubSeq(kBlob.pre, 1, KeySize))]_vars

(***************************************************************************)
(* NaClDecrypt and KeysDecrypt on inputs of any length                     *)
(***************************************************************************)

\* The first n bytes of a blob; a box that is cut is bytes that do not open.
Truncate(b, n) ==
    IF n >= BlobLen(b) THEN b
    ELSE IF n <= Len(b.pre) THEN Plain(SubSeq(b.pre, 1, n))
    ELSE Plain(b.pre \o Fill(n - Len(b.pre), 255))

\* The lengths around the nonce and around salt and nonce.
ShortLens ==
    {0, 1, NonceSize - 1, NonceSize, NonceSize + 1, KeySize + NonceSize - 1,
     KeySize + NonceSize, KeySize + NonceSize + 1, KeySize + NonceSize + Overhead}

\* An object and a secrets blob as they were uploaded, cut to any of these
\* lengths or whole.
ShortInit ==
    /\ ManIdle /\ RunIdle
    /\ envFile = TreeFile(ContentX)
    /\ envCompress = FALSE
    /\ envKey = Key(11)
    /\ envOpenKey = Key(11)
    /\ \E n \in ShortLens \cup {BlobLen(FileNaClEncrypt(envFile, FALSE, envKey, Nonce(1)))} :
          envBlob = Truncate(FileNaClEncrypt(envFile, FALSE, envKey, Nonce(1)), n)
    /\ envOut = NoResult
    /\ envPc = "open"
    /\ kBundle = Bundle(11)
    /\ kPass = Hunter2
    /\ kPass2 \in Passwords
    /\ kSalt = Key(1)
    /\ kKey = <<>>
    /\ kZ = 0
    /\ \E n \in ShortLens \cup {BlobLen(KeysEncrypt(kBundle, kPass, kSalt, Nonce(1), 0))} :
          kBlob = Truncate(KeysEncrypt(kBundle, kPass, kSalt, Nonce(1), 0), n)
    /\ kOut = KeysFailure("none")
    /\ kPc = "decrypt"
    /\ kLeft = {}

ShortNext == EnvDecrypt \/ DecryptDerive \/ ZeroStep \/ DecryptOpen

SpecShort == ShortInit /\ [][ShortNext]_vars

\* C24: NaClDecrypt and KeysDecrypt return a result or an error for every
\* input: an input shorter than the nonce, or than salt and nonce, yields
\* an error and never an out-of-range crash.
C24_ShortInputIsAnError ==
    /\ envPc = "done" => envOut.err # PanicSlice
    /\ kPc = "done" => kOut.err # PanicSlice

\* An input that holds at least the prefix yields a result or an error.
PrefixLongInputReturns ==
    /\ (envPc = "done" /\ BlobLen(envBlob) >= NonceSize) =>
           envOut.err \in {"", "could not decrypt body"}
    /\ (kPc = "done" /\ BlobLen(kBlob) >= KeySize + NonceSize) =>
           kOut.err \in {"", "could not decrypt"}

(***************************************************************************)
(* Runs in which a request of online() fails                               *)
(***************************************************************************)

FaultyNext ==
    \/ StartCreateWith(Faults)
    \/ StartExtractAt({RootR}, Faults)
    \/ NewPassword
    \/ EnterPassword
    \/ Walk
    \/ ArchiveFinish
    \/ OpenManifest
    \/ ListNext
    \/ SetPermissions
    \/ Return

\* A machine with or without keys and password file, against an empty
\* drive or the drive its keys are bound to; the tree is one directory.
FaultyInit ==
    /\ EnvIdle /\ KeysIdle /\ ManIdle /\ ProgIdle
    /\ keyFile \in {<<>>, <<Bundle(11)>>}
    /\ pwFile \in {<<>>, <<Hunter2>>}
    /\ tree = <<NodeDir(PathD)>>
    /\ store \in {{}, BoundStore(Bundle(11), Hunter2)}

SpecFaulty == FaultyInit /\ [][FaultyNext]_vars

SecretsOnDrive == \E x \in store : x.parent = MetadataName /\ x.name = SecretsName

\* The errors online() returns when the lookup or the download of
\* metadata/secrets failed for a reason other than "not found".
LookupErrors == {"remote object not found", "download failed"}

SecretsUploadsOf(r) ==
    {i \in 1..Len(uploads) : uploads[i].run = r /\ uploads[i].name = SecretsName}

FailedSecretsUploads ==
    {i \in 1..Len(uploads) : uploads[i].name = SecretsName /\ uploads[i].answer # "Created"}

\* How run r ended, or is about to end.
ExitOf(r) == IF r = Len(hist) /\ pc # "idle" THEN exit ELSE hist[r].exit

\* C26: uploadSecrets returns an error whenever the upload did not create
\* the object: the run that made the upload ends with an error that is not
\* a crash, and never goes on as if the secrets were stored.
C26_FailedUploadIsAnError ==
    \A i \in FailedSecretsUploads :
        /\ ExitOf(uploads[i].run) # ""
        /\ ExitOf(uploads[i].run) # PanicNil

\* An upload answered with a status other than 201 and 409 is an error.
OtherStatusIsAnError ==
    \A i \in FailedSecretsUploads :
        uploads[i].answer = "Error" => ExitOf(uploads[i].run) = "secrets appeared unexpectedly"

(***************************************************************************)
(* List mode                                                               *)
(***************************************************************************)

\* The first run uploaded its manifest to metadata/ and the second run was
\* given its name with -f in mode `mode`; no local file has that name.
RemoteManifestGiven(mode) ==
    /\ pc = "idle"
    /\ Len(hist) = 2
    /\ Created(1) /\ hist[1].target = Dash /\ hist[1].exit = ""
    /\ hist[2].mode = mode
    /\ hist[2].target = hist[1].manifest

\* C27: list mode with a target that is not a local file fetches the
\* manifest from metadata/<target>, opens it with the metadata key and
\* lists its entries, as extract mode does.
C27_ListOfRemoteManifest ==
    (RemoteManifestGiven("list") /\ LinksResolve) =>
        /\ hist[2].exit = ""
        /\ Names(listed) = EntriesDue

\* Extract mode does fetch and read the manifest: it never ends in the
\* crash, and goes through the entries when it ends without error.
ExtractOfRemoteManifest ==
    (RemoteManifestGiven("extract") /\ LinksResolve) =>
        /\ hist[2].exit # PanicNil
        /\ hist[2].exit = "" => Names(listed) = EntriesDue

(***************************************************************************)
(* The password file                                                       *)
(***************************************************************************)

\* The password file as it will be unwraps the secrets on the drive as it
\* will be to the keys of the key file.
SavedPasswordUnwraps ==
    /\ GetMetadataFS(store', SecretsPath).err = ""
    /\ KeysDecrypt(pwFile'[1], GetMetadataFS(store', SecretsPath).asset.payload, 0)
           = [err |-> "", keys |-> <<keyFile'[1]>>]

\* C28: the password file is only ever written with a verified password:
\* whenever a step writes it, metadata/secrets exists and the content of
\* the file unwraps it to the local key bundle; it is not written when the
\* entered password failed verification or the upload of new secrets
\* failed.
C28_PasswordFileVerified == [][pwFile' # pwFile => SavedPasswordUnwraps]_vars

\* What does hold: the password entered at the prompt of downloadSecrets is
\* written only after verifySecrets accepted it.
PromptedPasswordVerified ==
    [][(pc = "password" /\ pwFile' # pwFile) =>
           (verified'.called /\ verified'.err = "" /\ SavedPasswordUnwraps)]_vars

(***************************************************************************)
(* The target of a create run                                              *)
(***************************************************************************)

\* A create run with -f m starts and online() returns an error at once:
\* no client, no folders, the lookup or download of the secrets fails, or
\* the saved password does not unwrap them to the local keys.
OnlineFailsForLocalTarget ==
    /\ pc = "idle"
    /\ pc' = "return"
    /\ a'.mode = "create"
    /\ a'.target = LocalTarget
    /\ exit' # ""

\* C29: in create mode with a local target, when acquiring the store,
\* creating data/ and metadata/ or resolving the key bundle fails, the
\* target file is left as it was, neither created nor truncated.
C29_TargetKeptWhenOnlineFails == [][OnlineFailsForLocalTarget => localMd' = localMd]_vars

====
